---- MODULE Spec2Model ----
(***************************************************************************)
(* A model of the azureml-primers tutorial notebooks: the notebook cells   *)
(* and the scripts they write, run against the Azure ML service they call. *)
(* Each notebook cell is a short sequence of service calls; the service is *)
(* the environment, and answers each call with a result or an exception.   *)
(*                                                                         *)
(*   Spec          the workspace and compute cells of a notebook session   *)
(*   SpecScript    one run of one script                                   *)
(*   SpecJobs      the submissions of a session                            *)
(*   SpecBatch     the batch scoring script                                *)
(*   SpecPipeline  the training pipeline                                   *)
(*   SpecSweep     the Hyperdrive sweep                                    *)
(*   SpecCompute   the cluster at work                                     *)
(*   SpecModels    the registrations of the model                          *)
(*   SpecData      the dataset cells                                       *)
(*   SpecRest      the published pipeline called over REST                 *)
(*   SpecNotebooks the notebooks in document order                         *)
(***************************************************************************)
EXTENDS Integers, Sequences, FiniteSets, TLC

(***************************************************************************)
(* Bounds of the model.                                                    *)
(***************************************************************************)
\* How many cells one session executes.
MaxCellRuns == 3
\* How many elements the loops of a script run over.
MaxLoop == 2
\* How many submissions one session works through.
MaxFlows == 2
\* How many files the batch folder holds, and how many different records.
MaxFiles == 3
MaxRecord == 2
\* How often the training pipeline is submitted, and how many versions of
\* the model are registered before.
MaxPipelineRuns == 2
MaxVersions == 1
\* How many different AUC values the child runs of a sweep can report.
MaxAUC == 2
\* How often the dataset registration cell is executed.
MaxDatasetRuns == 3
\* How many POSTs are sent to the published pipeline.
MaxPosts == 2
\* How many notebooks are executed one after the other.
MaxNotebooks == 2

(***************************************************************************)
(* The notebook session: workspace set-up and the 'get or create cluster'  *)
(* cells.                                                                  *)
(***************************************************************************)
VARIABLES
    workspace,      \* service: TRUE when the workspace WORKSPACE_NAME exists
    config,         \* .azureml/config.json: NoConfig or the saved JSON object
    saved,          \* the workspace the last write_config was called on
    ws,             \* kernel variable ws: None or a workspace
    cluster,        \* service: the compute target named cpu_cluster_name
    nextId,         \* service: identity given to the next cluster created
    cpu_cluster,    \* kernel variable cpu_cluster: NoCluster while unbound
    cell,           \* the cell being executed, "idle" between cells
    pc,             \* position inside the cell
    exc,            \* the <<site, exception>> in flight, <<>> when there is none
    lookup,         \* how the lookup of this cell execution ended
    found,          \* the cluster the lookup of this cell execution returned
    creates,        \* ComputeTarget.create calls of this cell execution
    waited,         \* the cluster wait_for_completion was called on
    handled,        \* <<site, exception>> pairs caught by a local handler
    surfaced,       \* <<site, exception>> pairs that reached the notebook user
    branches,       \* branches of the cluster cell that ran to its end
    attempts,       \* <<call, workspace asked for>> of this cell execution
    creations,      \* the session so far: "created" or "raised" for every
                    \* ComputeTarget.create call, "deleted" for every deletion
    cellRuns        \* cells executed so far

sessionVars == <<workspace, config, saved, ws, cluster, nextId, cpu_cluster, cell, pc,
                 exc, lookup, found, creates, waited, handled, surfaced,
                 branches, attempts, creations, cellRuns>>


SUBSCRIPTION_ID == "<YOUR_AZURE_SUBSCRIPTION_ID>"
RESOURCE_GROUP_NAME == "aml-resource-group"
WORKSPACE_NAME == "aml-workspace"
cpu_cluster_name == "cpu-cluster"
max_nodes == 4

\* A provisioning configuration that leaves max_nodes out: the cluster gets
\* fewer nodes than the cells ask for.
smaller_config == [vm_size |-> "STANDARD_D2_V2", vm_priority |-> "lowpriority",
                   max_nodes |-> max_nodes - 1]

\* AmlCompute.provisioning_configuration(vm_size='STANDARD_D2_V2',
\*                                       vm_priority='lowpriority', max_nodes=4)
compute_config == [vm_size |-> "STANDARD_D2_V2", vm_priority |-> "lowpriority",
                   max_nodes |-> max_nodes]

\* What ws is bound to: the workspace of a name in a resource group of a
\* subscription, or None.
Workspace(workspace_name, subscription_id, resource_group) ==
    [name |-> workspace_name, subscription_id |-> subscription_id,
     resource_group |-> resource_group]

None == Workspace("None", "", "")

\* The configuration file when there is none.
NoConfig == [k \in {} |-> ""]

\* ws.write_config(): the JSON object saved in .azureml/config.json.
WriteConfig(w) ==
    [k \in {"subscription_id", "resource_group", "workspace_name"} |->
        CASE k = "subscription_id" -> w.subscription_id
          [] k = "resource_group" -> w.resource_group
          [] k = "workspace_name" -> w.name]

\* A from_config that takes the workspace name for the resource group.
FromConfigMixedUp(c) ==
    Workspace(c["resource_group"], c["subscription_id"], c["workspace_name"])

\* Workspace.from_config(): the workspace the saved JSON object names.
FromConfig(c) ==
    Workspace(c["workspace_name"], c["subscription_id"], c["resource_group"])

NoCluster == [name |-> "none", id |-> 0, max_nodes |-> 0]

\* The notebooks holding a 'get or create cluster' cell.
ClusterCells == {"batch", "compute", "pipeline", "optimize"}

\* Calls made outside any try block.
PlainCells == {"from_config", "datasets.get", "submit"}

\* The exceptions the service raises at each call.
AuthenticationException == "AuthenticationException"
ComputeTargetException == "ComputeTargetException"

\* An exception that is not one of the SDK's, such as the connection error
\* of the HTTP library: like Exception itself it has no attribute 'message'.
ConnectionError == "ConnectionError"

\* A service whose lookup can miss a cluster that exists.
RaisesNotFoundAnyway(site) ==
    IF site = "ComputeTarget" THEN {AuthenticationException, ComputeTargetException}
    ELSE {AuthenticationException}

Raises(site) ==
    CASE site = "Workspace" ->
           {AuthenticationException, ConnectionError} \cup
           (IF workspace THEN {} ELSE {"WorkspaceException"})
      [] site = "Workspace.create" -> {AuthenticationException, "WorkspaceException"}
      [] site = "from_config" ->
           {AuthenticationException} \cup
           (IF config = NoConfig THEN {"UserErrorException"} ELSE {})
      [] site = "ComputeTarget" ->
           {AuthenticationException} \cup
           (IF cluster = NoCluster THEN {ComputeTargetException} ELSE {})
      [] site = "ComputeTarget.create" -> {AuthenticationException}
      [] site = "wait_for_completion" -> {AuthenticationException}
      [] site = "datasets.get" -> {AuthenticationException, "DatasetNotFound"}
      [] site = "submit" -> {AuthenticationException, "ActivityFailedException"}
      [] OTHER -> {}

\* A call succeeds only when what it looks up exists.
Succeeds(site) ==
    CASE site = "Workspace" -> workspace
      [] site = "from_config" -> config # NoConfig
      [] site = "ComputeTarget" -> cluster # NoCluster
      [] OTHER -> TRUE

\* print(ex.message) in the handler of the workspace cell: the SDK's
\* exceptions have the attribute, the others raise AttributeError.
HasMessage(e) == e # ConnectionError

\* except Exception as ex: (the workspace cell)
WorkspaceCellCatches(e) == TRUE

\* A bare 'except Exception:' in place of the handler a cell has.
CatchesAnyException(e) == TRUE

\* except ComputeTargetException: (the cluster cells)
ClusterCellCatches(e) == e = ComputeTargetException

\* A 'try: ... except Exception: pass' around a call that has none.
SwallowsAnyException(e) == TRUE

\* A call outside any try block catches nothing.
PlainCellCatches(e) == FALSE

InitSession ==
    /\ workspace \in BOOLEAN
    /\ config = NoConfig
    /\ saved = None
    /\ ws = None
    /\ cluster \in {NoCluster} \cup
                   {[name |-> cpu_cluster_name, id |-> 1, max_nodes |-> n] : n \in {2, max_nodes}}
    /\ nextId = 2
    /\ cpu_cluster = NoCluster
    /\ cell = "idle"
    /\ pc = "idle"
    /\ exc = <<>>
    /\ lookup = "none"
    /\ found = NoCluster
    /\ creates = 0
    /\ waited = NoCluster
    /\ handled = {}
    /\ surfaced = {}
    /\ branches = {}
    /\ attempts = {}
    /\ creations = <<>>
    /\ cellRuns = 0

\* The state in which the session rests while another machine runs.
IdleSession ==
    /\ workspace = TRUE
    /\ config = WriteConfig(Workspace(WORKSPACE_NAME, SUBSCRIPTION_ID, RESOURCE_GROUP_NAME))
    /\ saved = Workspace(WORKSPACE_NAME, SUBSCRIPTION_ID, RESOURCE_GROUP_NAME)
    /\ ws = Workspace(WORKSPACE_NAME, SUBSCRIPTION_ID, RESOURCE_GROUP_NAME)
    /\ cluster = NoCluster
    /\ nextId = 2
    /\ cpu_cluster = NoCluster
    /\ cell = "idle"
    /\ pc = "idle"
    /\ exc = <<>>
    /\ lookup = "none"
    /\ found = NoCluster
    /\ creates = 0
    /\ waited = NoCluster
    /\ handled = {}
    /\ surfaced = {}
    /\ branches = {}
    /\ attempts = {}
    /\ creations = <<>>
    /\ cellRuns = 0

\* The user runs a cell: only one cell executes at a time.
StartCell(c, first) ==
    /\ cell = "idle"
    /\ cellRuns < MaxCellRuns
    /\ cell' = c
    /\ pc' = first
    /\ exc' = <<>>
    /\ lookup' = "none"
    /\ found' = NoCluster
    /\ creates' = 0
    /\ waited' = NoCluster
    /\ cellRuns' = cellRuns + 1
    /\ attempts' = {}

\* An uncaught exception ends the cell and is shown to the user.
Surface(site, e) ==
    /\ surfaced' = surfaced \cup {<<site, e>>}
    /\ cell' = "idle"
    /\ pc' = "error"
    /\ exc' = <<site, e>>

EndCell ==
    /\ cell' = "idle"
    /\ pc' = "done"

(***************************************************************************)
(* The workspace cell: ws = None; try: Workspace(...) except Exception:    *)
(* Workspace.create(...) finally: if ws != None: ws.write_config()         *)
(***************************************************************************)
WorkspaceStart ==
    /\ StartCell("workspace", "ws_lookup")
    /\ ws' = None
    /\ UNCHANGED <<workspace, config, saved, cluster, nextId, cpu_cluster, handled,
                   surfaced, branches, creations>>

WorkspaceLookup ==
    /\ cell = "workspace" /\ pc = "ws_lookup"
    /\ attempts' = attempts \cup
          {<<"Workspace", Workspace(WORKSPACE_NAME, SUBSCRIPTION_ID, RESOURCE_GROUP_NAME)>>}
    /\ \/ /\ Succeeds("Workspace")
          /\ ws' = Workspace(WORKSPACE_NAME, SUBSCRIPTION_ID, RESOURCE_GROUP_NAME)
          /\ lookup' = "ws_found"
          /\ pc' = "ws_finally"
          /\ UNCHANGED <<exc, handled>>
       \/ \E e \in Raises("Workspace") :
             /\ lookup' = e
             /\ IF WorkspaceCellCatches(e)
                  THEN /\ handled' = handled \cup {<<"Workspace", e>>}
                       /\ IF HasMessage(e)
                            THEN pc' = "ws_create" /\ UNCHANGED exc
                            ELSE /\ exc' = <<"print(ex.message)", "AttributeError">>
                                 /\ pc' = "ws_finally"
                       /\ UNCHANGED ws
                  ELSE /\ exc' = <<"Workspace", e>>
                       /\ pc' = "ws_finally"
                       /\ UNCHANGED <<ws, handled>>
    /\ UNCHANGED <<workspace, config, saved, cluster, nextId, cpu_cluster, cell,
                   found, creates, waited, surfaced, branches, cellRuns, creations>>

\* The except block: the exception it raises itself is not caught.
WorkspaceCreate ==
    /\ cell = "workspace" /\ pc = "ws_create"
    /\ attempts' = attempts \cup
          {<<"Workspace.create", Workspace(WORKSPACE_NAME, SUBSCRIPTION_ID, RESOURCE_GROUP_NAME)>>}
    /\ \/ /\ workspace' = TRUE
          /\ ws' = Workspace(WORKSPACE_NAME, SUBSCRIPTION_ID, RESOURCE_GROUP_NAME)
          /\ UNCHANGED exc
       \/ \E e \in Raises("Workspace.create") :
             /\ exc' = <<"Workspace.create", e>>
             /\ UNCHANGED <<workspace, ws>>
    /\ pc' = "ws_finally"
    /\ UNCHANGED <<config, saved, cluster, nextId, cpu_cluster, cell, lookup, found,
                   creates, waited, handled, surfaced, branches, cellRuns, creations>>

\* The finally block, then the exception in flight, if any, goes on.
WorkspaceFinally ==
    /\ cell = "workspace" /\ pc = "ws_finally"
    /\ config' = IF ws # None THEN WriteConfig(ws) ELSE config
    /\ saved' = IF ws # None THEN ws ELSE saved
    /\ IF exc # <<>>
         THEN Surface(exc[1], exc[2])
         ELSE EndCell /\ UNCHANGED <<exc, surfaced>>
    /\ UNCHANGED <<workspace, ws, cluster, nextId, cpu_cluster, lookup, found,
                   creates, waited, handled, branches, cellRuns>>
    /\ UNCHANGED <<attempts, creations>>

(***************************************************************************)
(* The 'get or create cluster' cell.                                       *)
(***************************************************************************)
ClusterStart(c) ==
    /\ StartCell(c, "cl_lookup")
    /\ UNCHANGED <<workspace, config, saved, ws, cluster, nextId, cpu_cluster, handled,
                   surfaced, branches, creations>>

\* try: cpu_cluster = ComputeTarget(workspace=ws, name=cpu_cluster_name)
ClusterLookup ==
    /\ cell \in ClusterCells /\ pc = "cl_lookup"
    /\ \/ /\ Succeeds("ComputeTarget")
          /\ cpu_cluster' = cluster
          /\ found' = cluster
          /\ lookup' = "found"
          /\ pc' = "cl_wait"
          /\ UNCHANGED <<cell, exc, handled, surfaced>>
       \/ \E e \in Raises("ComputeTarget") :
             /\ lookup' = e
             /\ IF ClusterCellCatches(e)
                  THEN /\ handled' = handled \cup {<<"ComputeTarget", e>>}
                       /\ pc' = "cl_create"
                       /\ UNCHANGED <<cell, exc, surfaced>>
                  ELSE /\ Surface("ComputeTarget", e)
                       /\ UNCHANGED handled
             /\ UNCHANGED <<cpu_cluster, found>>
    /\ UNCHANGED <<workspace, config, saved, ws, cluster, nextId, creates, waited,
                   branches, cellRuns>>
    /\ UNCHANGED <<attempts, creations>>

\* except ComputeTargetException: cpu_cluster = ComputeTarget.create(...)
ClusterCreate ==
    /\ cell \in ClusterCells /\ pc = "cl_create"
    /\ creates' = creates + 1
    /\ \/ /\ cluster' = [name |-> cpu_cluster_name, id |-> nextId,
                         max_nodes |-> compute_config.max_nodes]
          /\ nextId' = nextId + 1
          /\ cpu_cluster' = cluster'
          /\ pc' = "cl_wait"
          /\ creations' = Append(creations, "created")
          /\ UNCHANGED <<cell, exc, surfaced>>
       \/ \E e \in Raises("ComputeTarget.create") :
             /\ Surface("ComputeTarget.create", e)
             /\ creations' = Append(creations, "raised")
             /\ UNCHANGED <<cluster, nextId, cpu_cluster>>
    /\ UNCHANGED <<workspace, config, saved, ws, lookup, found, waited, handled,
                   branches, cellRuns>>
    /\ UNCHANGED attempts

\* cpu_cluster.wait_for_completion(show_output=True)
ClusterWait ==
    /\ cell \in ClusterCells /\ pc = "cl_wait"
    /\ waited' = cpu_cluster
    /\ \/ /\ EndCell
          /\ branches' = branches \cup {lookup}
          /\ UNCHANGED <<exc, surfaced>>
       \/ \E e \in Raises("wait_for_completion") :
             /\ Surface("wait_for_completion", e)
             /\ UNCHANGED branches
    /\ UNCHANGED <<workspace, config, saved, ws, cluster, nextId, cpu_cluster, lookup,
                   found, creates, handled, cellRuns>>
    /\ UNCHANGED <<attempts, creations>>

\* The user deletes the cluster in the portal between two cells.
DeleteCluster ==
    /\ cell = "idle"
    /\ cluster # NoCluster
    /\ cluster' = NoCluster
    /\ creations' = Append(creations, "deleted")
    /\ UNCHANGED <<workspace, config, saved, ws, nextId, cpu_cluster, cell, pc, exc,
                   lookup, found, creates, waited, handled, surfaced, branches,
                   cellRuns>>
    /\ UNCHANGED attempts

(***************************************************************************)
(* A cell that makes one call outside any try block.                       *)
(***************************************************************************)
PlainCell(site) ==
    /\ StartCell(site, "call")
    /\ UNCHANGED <<workspace, config, saved, ws, cluster, nextId, cpu_cluster, handled,
                   surfaced, branches, creations>>

PlainCall ==
    /\ cell \in PlainCells /\ pc = "call"
    /\ \/ /\ Succeeds(cell)
          /\ ws' = IF cell = "from_config" THEN FromConfig(config) ELSE ws
          /\ lookup' = IF cell = "from_config" THEN "loaded" ELSE lookup
          /\ EndCell
          /\ UNCHANGED <<exc, handled, surfaced>>
       \/ \E e \in Raises(cell) :
             /\ IF PlainCellCatches(e)
                  THEN /\ handled' = handled \cup {<<cell, e>>}
                       /\ EndCell
                       /\ UNCHANGED <<exc, surfaced>>
                  ELSE /\ Surface(cell, e)
                       /\ UNCHANGED handled
             /\ UNCHANGED <<ws, lookup>>
    /\ UNCHANGED <<workspace, config, saved, cluster, nextId, cpu_cluster, found,
                   creates, waited, branches, cellRuns>>
    /\ UNCHANGED <<attempts, creations>>

(***************************************************************************)
(* The experiment scripts.  A script is its sequence of statements; a      *)
(* statement names the variable or module it refers to (uses), what it     *)
(* calls, the argument that matters and the name it assigns (binds).       *)
(***************************************************************************)
St(u, c, a, b) == [uses |-> u, call |-> c, arg |-> a, binds |-> b]

\* import ...: binds the imported names, refers to none.
Import(names) == [uses |-> "", call |-> "import", arg |-> "", binds |-> names]

\* for ... in ...: the body once per element.
Loop(n, s) == [i \in 1..n |-> s]

\* The calls that log to the run, and the calls that write a file.
LogCalls == {"log", "log_image", "log_row", "upload_file"}
FileCalls == {"dump", "to_csv", "open", "write"}

\* The calls that read data, ask the service or upload to it, and so can
\* raise.
ExternalCalls == {"read_csv", "get_by_name", "input_datasets", "get_model_path",
                  "load", "register", "glob", "upload_file"}

\* %matplotlib inline cell of 'Getting Started with Experiments'.
inline_experiment(n) ==
    << Import({"Experiment", "Run", "pd", "plt"}),
       St("Experiment", "Experiment", "diabetes-experiment", {"experiment"}),
       St("experiment", "start_logging", "", {"run"}),
       St("pd", "read_csv", "data/diabetes.csv", {"data"}),
       St("run", "log", "observations", {}) >>
    \o Loop(n, St("run", "log_image", "col", {}))
    \o << St("plt", "show", "", {}) >>
    \o Loop(n, St("run", "log_row", "Mean Diabetes Pedigree by Age", {}))
    \o << St("data", "to_csv", "sample.csv", {}),
          St("run", "upload_file", "outputs/sample.csv", {}),
          St("run", "complete", "", {}) >>

\* diabetes_experiment.py
diabetes_experiment(n) ==
    << Import({"Run", "pd", "plt"}),
       St("Run", "get_context", "", {"run"}),
       St("pd", "read_csv", "./diabetes.csv", {"data"}),
       St("run", "log", "observations", {}) >>
    \o Loop(n, St("run", "log_image", "col", {}))
    \o << St("plt", "show", "", {}) >>
    \o Loop(n, St("run", "log_row", "Mean Diabetes Pedigree by Age", {}))
    \o << St("data", "to_csv", "sample.csv", {}),
          St("run", "upload_file", "outputs/sample.csv", {}),
          St("run", "complete", "", {}) >>

\* The part the diabetes_training.py variants share: fit, log the metrics
\* and the ROC image, save the model, complete the run.
TrainAndSave ==
    << St("train_test_split", "train_test_split", "", {}),
       St("run", "log", "Regularization Rate", {}),
       St("LogisticRegression", "fit", "", {"model"}),
       St("run", "log", "Accuracy", {}),
       St("run", "log", "AUC", {}),
       St("plt", "figure", "", {"fig"}),
       St("run", "log_image", "ROC", {}),
       St("plt", "show", "", {}),
       St("os", "makedirs", "outputs", {}),
       St("joblib", "dump", "outputs/diabetes_model.pkl", {}),
       St("run", "complete", "", {}) >>

\* What every diabetes_training.py variant imports.
TrainingImports == {"joblib", "Workspace", "Dataset", "Experiment", "Run", "pd",
                    "np", "plt", "train_test_split", "LogisticRegression",
                    "roc_auc_score", "roc_curve"}

\* diabetes_training.py of 'From Data to Model': the dataset by name.
diabetes_training_by_name ==
    << Import(TrainingImports),
       St("Run", "get_context", "", {"run"}),
       St("Dataset", "get_by_name", "Diabetes Dataset", {"diabetes"}) >>
    \o TrainAndSave

\* diabetes_training.py of 'From Data to Model' and 'Compute Contexts': the
\* dataset as the estimator's input.
diabetes_training_input ==
    << Import(TrainingImports \cup {"argparse"}),
       St("argparse", "parse_args", "--regularization", {"args"}),
       St("Run", "get_context", "", {"run"}),
       St("run", "input_datasets", "diabetes", {"diabetes"}) >>
    \o TrainAndSave

\* diabetes_training.py of 'From Data to Model': the data folder reference.
diabetes_training_data_folder ==
    << Import(TrainingImports \cup {"argparse", "os"}),
       St("argparse", "parse_args", "--data-folder", {"args"}),
       St("Run", "get_context", "", {"run"}),
       St("pd", "read_csv", "diabetes.csv", {"diabetes"}) >>
    \o TrainAndSave

\* diabetes_training.py of 'Optimizing Model Training' (the Hyperdrive run).
diabetes_training_hyperdrive ==
    << Import(TrainingImports \cup {"argparse"}),
       St("argparse", "parse_args", "--regularization", {"args"}),
       St("Run", "get_context", "", {"run"}),
       St("Dataset", "get_by_name", "Diabetes Dataset", {"diabetes"}) >>
    \o TrainAndSave

\* train_diabetes.py, the first step of the training pipeline.
train_diabetes ==
    << Import({"argparse", "joblib", "Workspace", "Dataset", "Experiment", "Run",
               "pd", "np", "train_test_split", "LogisticRegression"}),
       St("argparse", "parse_args", "--output_folder", {"args"}),
       St("Run", "get_context", "", {"run"}),
       St("Dataset", "get_by_name", "Diabetes Dataset", {"diabetes"}),
       St("run", "log", "Regularization Rate", {}),
       St("LogisticRegression", "fit", "", {"model"}),
       St("os", "makedirs", "model_folder", {}),
       St("joblib", "dump", "model_folder/model.pkl", {}),
       St("run", "complete", "", {}) >>

\* register_diabetes.py, the second step of the training pipeline.
register_diabetes ==
    << Import({"argparse", "joblib", "Workspace", "Model", "Run"}),
       St("argparse", "parse_args", "--model_folder", {"args"}),
       St("Run", "get_context", "", {"run"}),
       St("joblib", "load", "model_folder/model.pkl", {"model"}),
       St("Model", "register", "diabetes_model", {}),
       St("run", "complete", "", {}) >>

\* batch_diabetes.py, the batch scoring step.
batch_diabetes(n) ==
    << Import({"argparse", "joblib", "Workspace", "Model", "Run", "glob", "os",
               "np", "shutil"}),
       St("Run", "get_context", "", {"run"}),
       St("argparse", "parse_args", "--input_dir", {"args"}),
       St("run", "log", "Input Folder", {}),
       St("Model", "get_model_path", "diabetes_model", {"model_path"}),
       St("joblib", "load", "model_path", {"model"}),
       St("glob", "glob", "*.csv", {"file_names"}),
       St("run", "log", "File Count", {}),
       St("np", "genfromtxt", "", {"input_data"}),
       St("model", "predict", "", {"predictions"}),
       St("os", "makedirs", "outputs", {}),
       St("", "open", "outputs/results.txt", {"output_file"}) >>
    \o Loop(n, St("output_file", "write", "outputs/results.txt", {}))
    \o << St("run", "complete", "", {}) >>

ScriptNames == {"inline_experiment", "diabetes_experiment",
                "diabetes_training_by_name", "diabetes_training_input",
                "diabetes_training_data_folder", "diabetes_training_hyperdrive",
                "train_diabetes", "register_diabetes", "batch_diabetes"}

\* The statements of a script whose loops run n times.
ScriptSource(name, n) ==
    CASE name = "inline_experiment" -> inline_experiment(n)
      [] name = "diabetes_experiment" -> diabetes_experiment(n)
      [] name = "diabetes_training_by_name" -> diabetes_training_by_name
      [] name = "diabetes_training_input" -> diabetes_training_input
      [] name = "diabetes_training_data_folder" -> diabetes_training_data_folder
      [] name = "diabetes_training_hyperdrive" -> diabetes_training_hyperdrive
      [] name = "train_diabetes" -> train_diabetes
      [] name = "register_diabetes" -> register_diabetes
      [] name = "batch_diabetes" -> batch_diabetes(n)

\* A script whose run.complete() was written one statement too early.
ScriptCompleteEarly(name, n) ==
    LET text == ScriptSource(name, n)
        last == Len(text)
    IN  [i \in 1..last |-> IF i = last - 1 THEN text[last]
                           ELSE IF i = last THEN text[last - 1]
                           ELSE text[i]]

ScriptText(name, n) == ScriptSource(name, n)

\* The interpreter's state before the first statement.
Fresh == [bound |-> {""}, logged |-> <<>>, files |-> {}, complete |-> FALSE,
          after |-> 0, error |-> "none"]

\* One statement: a NameError when the name it refers to is not bound, the
\* exception of the call when it fails, its effect on the run otherwise.
\* The statements as they would run inside try/finally: run.complete() is
\* called on the way out of a statement that raises.
ExecStmtFinally(st, s, fails) ==
    IF s.uses \notin st.bound THEN [st EXCEPT !.error = "NameError", !.complete = TRUE]
    ELSE IF fails THEN [st EXCEPT !.error = "Exception", !.complete = TRUE]
    ELSE [st EXCEPT
            !.bound = @ \cup s.binds,
            !.logged = IF s.call \in LogCalls THEN Append(@, <<s.call, s.arg>>) ELSE @,
            !.after = IF s.call \in LogCalls /\ st.complete THEN @ + 1 ELSE @,
            !.files = IF s.call \in FileCalls THEN @ \cup {s.arg} ELSE @,
            !.complete = IF s.call = "complete" THEN TRUE ELSE @]

ExecStmt(st, s, fails) ==
    IF s.uses \notin st.bound THEN [st EXCEPT !.error = "NameError"]
    ELSE IF fails THEN [st EXCEPT !.error = "Exception"]
    ELSE [st EXCEPT
            !.bound = @ \cup s.binds,
            !.logged = IF s.call \in LogCalls THEN Append(@, <<s.call, s.arg>>) ELSE @,
            !.after = IF s.call \in LogCalls /\ st.complete THEN @ + 1 ELSE @,
            !.files = IF s.call \in FileCalls THEN @ \cup {s.arg} ELSE @,
            !.complete = IF s.call = "complete" THEN TRUE ELSE @]

\* A whole script, no call failing: statement after statement until one raises.
RECURSIVE RunFrom(_, _, _)
RunFrom(text, i, st) ==
    IF i > Len(text) \/ st.error # "none" THEN st
    ELSE RunFrom(text, i + 1, ExecStmt(st, text[i], FALSE))

RunScript(name, n) == RunFrom(ScriptText(name, n), 1, Fresh)

\* What a script logs to the run, and the files it writes, when it runs to
\* its end.
LogStatements(text) ==
    LET logs == SelectSeq(text, LAMBDA s : s.call \in LogCalls)
    IN  [i \in 1..Len(logs) |-> <<logs[i].call, logs[i].arg>>]

FilesWritten(text) ==
    {text[i].arg : i \in {j \in 1..Len(text) : text[j].call \in FileCalls}}

(***************************************************************************)
(* One run of one script: inline in the notebook kernel (start_logging) or *)
(* submitted and run by the service (Run.get_context).                     *)
(***************************************************************************)
VARIABLES
    script,         \* the script being run
    iters,          \* how many elements its loops run over
    sst,            \* the interpreter's state
    spc,            \* the next statement
    exited,         \* TRUE once the script has ended
    runStatus       \* the run in the service: Running, Completed or Failed

scriptVars == <<script, iters, sst, spc, exited, runStatus>>

InitScript ==
    /\ script \in ScriptNames
    /\ iters \in 0..MaxLoop
    /\ sst = Fresh
    /\ spc = 1
    /\ exited = FALSE
    /\ runStatus = "Running"

\* The state in which the script machine rests while another one runs.
IdleScript ==
    /\ script = "inline_experiment"
    /\ iters = 0
    /\ sst = Fresh
    /\ spc = 1
    /\ exited = TRUE
    /\ runStatus = "Running"

\* The next statement; a call on data or on the service may raise.
ScriptStep ==
    /\ ~exited
    /\ sst.error = "none"
    /\ spc <= Len(ScriptText(script, iters))
    /\ LET s == ScriptText(script, iters)[spc]
       IN  \E fails \in (IF s.call \in ExternalCalls THEN BOOLEAN ELSE {FALSE}) :
             /\ sst' = ExecStmt(sst, s, fails)
             /\ runStatus' = IF sst'.complete THEN "Completed" ELSE runStatus
    /\ spc' = spc + 1
    /\ UNCHANGED <<script, iters, exited>>

\* The script ends, by its last statement or by an exception.  The service
\* finalizes a run it started itself; nothing finalizes an inline run.
ScriptExit ==
    /\ ~exited
    /\ sst.error # "none" \/ spc > Len(ScriptText(script, iters))
    /\ exited' = TRUE
    /\ runStatus' = IF script = "inline_experiment" THEN runStatus
                    ELSE IF sst.error # "none" THEN "Failed"
                    ELSE "Completed"
    /\ UNCHANGED <<script, iters, sst, spc>>

(***************************************************************************)
(* Job submissions.  A flow is what a notebook does with one submitted     *)
(* run, cell after cell, when its cells are executed without pausing.      *)
(***************************************************************************)
VARIABLES
    flow,           \* the submission being worked through, "idle" between two
    fpc,            \* the next statement of the flow
    jobStatus,      \* the submitted run in the service
    reads,          \* <<flow, statement, status of the run when it was read>>
    flowsRun,       \* flows started so far
    issued          \* <<flow number, statement>> of every call that starts or stops a run

jobVars == <<flow, fpc, jobStatus, reads, flowsRun, issued>>

FlowNames == {"script", "estimator", "hyperdrive", "automl", "batch_pipeline",
              "training_pipeline", "rest_pipeline"}

\* The statements from the submission to the reads of its results, one
\* sequence for each kind of submission.
script_run ==
    <<"submit", "wait_for_completion", "get_metrics", "get_file_names">>

estimator_run ==
    <<"submit", "wait_for_completion", "get_metrics", "get_file_names",
      "register_model">>

hyperdrive_run ==
    <<"submit", "RunDetails.show", "get_best_run_by_primary_metric",
      "get_metrics", "register_model">>

automl_run ==
    <<"submit", "show_output", "RunDetails.show", "get_output", "get_metrics",
      "register_model">>

batch_pipeline_run ==
    <<"submit", "wait_for_completion", "get_children", "download_file">>

training_pipeline_run ==
    <<"submit", "RunDetails.show", "Model.list">>

published_pipeline_run ==
    <<"requests.post", "PipelineRun", "RunDetails.show", "get_children",
      "get_file_names", "download_file">>

\* A flow that submits again when the wait has returned.
FlowTextWithRetry(f) == <<"submit", "wait_for_completion", "submit">>

FlowText(f) ==
    CASE f = "script" -> script_run
      [] f = "estimator" -> estimator_run
      [] f = "hyperdrive" -> hyperdrive_run
      [] f = "automl" -> automl_run
      [] f = "batch_pipeline" -> batch_pipeline_run
      [] f = "training_pipeline" -> training_pipeline_run
      [] f = "rest_pipeline" -> published_pipeline_run

\* experiment.submit(...) and the POST to the published pipeline start a run.
Submits(stmt) == stmt \in {"submit", "requests.post"}

\* run.cancel() stops a run.
Cancels(stmt) == stmt = "cancel"

\* A wait that returns before the run has finished.
ReturnsAtOnce(stmt) == FALSE

\* run.wait_for_completion(show_output=True), and submit(.., show_output=True)
\* of an Auto ML run, return when the run has finished.
Blocking(stmt) == stmt \in {"wait_for_completion", "show_output"}

\* The statements that read the results of the run.
ReadsResults(stmt) ==
    stmt \in {"get_metrics", "get_file_names", "register_model",
              "get_best_run_by_primary_metric", "get_output", "get_children",
              "download_file", "Model.list"}

Finished == {"Completed", "Failed"}

InitJobs ==
    /\ flow = "idle"
    /\ fpc = 1
    /\ jobStatus = "none"
    /\ reads = {}
    /\ flowsRun = 0
    /\ issued = <<>>

\* The user runs the cells of the next submission.
StartFlow(f) ==
    /\ flow = "idle"
    /\ flowsRun < MaxFlows
    /\ flow' = f
    /\ fpc' = 1
    /\ jobStatus' = "none"
    /\ flowsRun' = flowsRun + 1
    /\ UNCHANGED <<reads, issued>>

\* The next statement of the flow.  wait_for_completion raises when the run
\* has failed, and the cells after it are not reached.
FlowStep ==
    /\ flow # "idle"
    /\ fpc <= Len(FlowText(flow))
    /\ LET stmt == FlowText(flow)[fpc]
       IN  /\ Blocking(stmt) => jobStatus \in Finished
           /\ jobStatus' = IF Submits(stmt) THEN "Running"
                          ELSE IF Cancels(stmt) THEN "Canceled" ELSE jobStatus
           /\ issued' = IF Submits(stmt) \/ Cancels(stmt)
                          THEN Append(issued, <<flowsRun, stmt>>)
                          ELSE issued
           /\ reads' = IF ReadsResults(stmt)
                         THEN reads \cup {<<flow, stmt, jobStatus>>}
                         ELSE reads
           /\ IF stmt = "wait_for_completion" /\ jobStatus = "Failed"
                THEN flow' = "idle" /\ fpc' = 1
                ELSE flow' = flow /\ fpc' = fpc + 1
    /\ UNCHANGED flowsRun

\* The last cell of the flow has run.
EndFlow ==
    /\ flow # "idle"
    /\ fpc > Len(FlowText(flow))
    /\ flow' = "idle"
    /\ fpc' = 1
    /\ UNCHANGED <<jobStatus, reads, flowsRun, issued>>

\* The service runs the job to its end while the notebook goes on.
JobProgress ==
    /\ jobStatus = "Running"
    /\ jobStatus' \in Finished
    /\ UNCHANGED <<flow, fpc, reads, flowsRun, issued>>

\* C3 as stated: after every submission the notebook blocks until the run
\* has completed before a later statement reads the run's results.
ReadsAfterCompletion ==
    \A r \in reads : r[3] \in Finished

\* C3 as amended: after a script, estimator, Auto ML or batch scoring
\* pipeline submission the results are read only when the run has finished.
WaitedReadsAfterCompletion ==
    \A r \in reads :
        r[1] \in {"script", "estimator", "automl", "batch_pipeline"} =>
            r[3] \in Finished

\* C3 witness: the metrics of an estimator run were read after it completed,
\* and the best run of a sweep was asked for while the sweep was running.
WaitedReadsWitness ==
    /\ <<"estimator", "get_metrics", "Completed">> \in reads
    /\ <<"hyperdrive", "get_best_run_by_primary_metric", "Running">> \in reads

\* C16: every flow issues exactly one submission, the first statement of
\* the flow; no flow submits again after its run has failed, and no flow
\* cancels a run.
OneSubmissionPerCell ==
    /\ Len(issued) = IF flow # "idle" /\ fpc = 1 THEN flowsRun - 1 ELSE flowsRun
    /\ \A i \in 1..Len(issued) :
          /\ issued[i][1] = i
          /\ Submits(issued[i][2])

\* C16 witness: two flows, one submitted with experiment.submit and one with
\* the POST, the run of the second having failed.
OneSubmissionWitness ==
    /\ flow = "idle"
    /\ jobStatus = "Failed"
    /\ issued = <<<<1, "submit">>, <<2, "requests.post">>>>

(***************************************************************************)
(* Batch scoring: batch_diabetes.py over the folder of files the notebook  *)
(* saved and uploaded.                                                     *)
(***************************************************************************)
VARIABLES
    batch_data,     \* the uploaded folder: file name -> the record in the file
    model,          \* the loaded model: record -> prediction
    bpc,            \* the next statement of the script
    file_names,     \* glob(file_path)
    file_count,     \* the value logged as 'File Count', -1 before it is logged
    input_data,     \* one row for each file read
    predictions,    \* model.predict(input_data)
    results,        \* the lines of outputs/results.txt
    df              \* the data frame the notebook reads results.txt into

batchVars == <<batch_data, model, bpc, file_names, file_count, input_data,
               predictions, results, df>>

input_dir == "batch_data"

\* The records a file can hold, and the classes a model predicts.
Records == 1..MaxRecord
Classes == {0, 1}

\* fname = str(i+1) + '.csv' for i in range(n)
SavedFiles(n) == {ToString(i + 1) \o ".csv" : i \in 0..(n - 1)}

\* os.path.join(input_dir, name) and os.path.split(path): a path is the
\* folder and the name in it.
Join(dir, name) == <<dir, name>>
Split(path) == <<path[1], path[2]>>

\* np.genfromtxt(f, delimiter=','): the record saved in file f.
Genfromtxt(path) == batch_data[Split(path)[2]]

\* The orders in which glob can list the files of a set.
Listings(S) ==
    {l \in [1..Cardinality(S) -> S] : \A i, j \in DOMAIN l : i # j => l[i] # l[j]}

\* A line that pairs the i-th file with the prediction of the one before it.
ShiftedLine(i) ==
    Split(file_names[i])[2] \o ": "
        \o ToString(predictions[IF i = 1 THEN Len(predictions) ELSE i - 1]) \o "\n"

\* The line written for the i-th prediction.
ResultLine(i) ==
    Split(file_names[i])[2] \o ": " \o ToString(predictions[i]) \o "\n"

\* The number of files the notebook saves: for i in range(100).
batch_files == 100

\* The position of the first character c of the string s, 0 when there is none.
Find(s, c) ==
    IF \E i \in 1..Len(s) : SubSeq(s, i, i) = c
    THEN CHOOSE i \in 1..Len(s) :
            /\ SubSeq(s, i, i) = c
            /\ \A j \in 1..(i - 1) : SubSeq(s, j, j) # c
    ELSE 0

\* The fields of a line: the strings between the delimiters.
RECURSIVE Fields(_, _)
Fields(s, delimiter) ==
    IF Find(s, delimiter) = 0 THEN <<s>>
    ELSE <<SubSeq(s, 1, Find(s, delimiter) - 1)>>
            \o Fields(SubSeq(s, Find(s, delimiter) + 1, Len(s)), delimiter)

\* The text of a file whose lines were written one after the other.
RECURSIVE FileText(_)
FileText(lines) ==
    IF lines = <<>> THEN "" ELSE Head(lines) \o FileText(Tail(lines))

\* The lines of a text, the empty one after the last newline left out.
TextLines(text) == SelectSeq(Fields(text, "\n"), LAMBDA l : l # "")

\* A number as the parser reads it: the blanks before it are skipped.
RECURSIVE ParseNumber(_)
ParseNumber(s) ==
    IF Len(s) > 0 /\ SubSeq(s, 1, 1) = " " THEN ParseNumber(SubSeq(s, 2, Len(s))) ELSE s

NoFrame == [error |-> "unread", columns |-> <<>>, rows |-> <<>>]

\* pd.read_csv with the first line taken as the header (header='infer').
ReadCsvWithHeader(text, delimiter) ==
    LET rows == [i \in 1..Len(TextLines(text)) |-> Fields(TextLines(text)[i], delimiter)]
    IN  IF rows = <<>> THEN [error |-> "EmptyDataError", columns |-> <<>>, rows |-> <<>>]
        ELSE IF \E i \in 1..Len(rows) : Len(rows[i]) > Len(rows[1])
        THEN [error |-> "ParserError", columns |-> <<>>, rows |-> <<>>]
        ELSE [error |-> "none", columns |-> rows[1], rows |-> Tail(rows)]

\* pd.read_csv(text, delimiter=delimiter, header=None): every line is a row,
\* the first line sets the number of columns, a longer line is an error.
ReadCsv(text, delimiter) ==
    LET rows == [i \in 1..Len(TextLines(text)) |-> Fields(TextLines(text)[i], delimiter)]
    IN  IF rows = <<>> THEN [error |-> "EmptyDataError", columns |-> <<>>, rows |-> <<>>]
        ELSE IF \E i \in 1..Len(rows) : Len(rows[i]) > Len(rows[1])
        THEN [error |-> "ParserError", columns |-> <<>>, rows |-> <<>>]
        ELSE [error |-> "none", columns |-> [c \in 1..Len(rows[1]) |-> ToString(c - 1)],
              rows |-> rows]

\* df.columns = names: the names have to be as many as the columns.
SetColumns(frame, names) ==
    IF frame.error # "none" THEN frame
    ELSE IF Len(names) # Len(frame.columns)
    THEN [error |-> "ValueError", columns |-> frame.columns, rows |-> frame.rows]
    ELSE [error |-> "none", columns |-> names, rows |-> frame.rows]

InitBatch ==
    /\ \E n \in 1..MaxFiles : batch_data \in [SavedFiles(n) -> Records]
    /\ model \in [Records -> Classes]
    /\ bpc = "glob"
    /\ file_names = <<>>
    /\ file_count = -1
    /\ input_data = <<>>
    /\ predictions = <<>>
    /\ results = <<>>
    /\ df = NoFrame

\* The state in which the batch machine rests while another one runs.
IdleBatch ==
    /\ batch_data = [f \in SavedFiles(1) |-> 1]
    /\ model = [r \in Records |-> 0]
    /\ bpc = "idle"
    /\ file_names = <<>>
    /\ file_count = -1
    /\ input_data = <<>>
    /\ predictions = <<>>
    /\ results = <<>>
    /\ df = NoFrame

\* file_names = glob(file_path); run.log("File Count", len(file_names))
BatchGlob ==
    /\ bpc = "glob"
    /\ \E l \in Listings(DOMAIN batch_data) :
          file_names' = [i \in DOMAIN l |-> Join(input_dir, l[i])]
    /\ file_count' = Len(file_names')
    /\ bpc' = "load"
    /\ UNCHANGED <<batch_data, model, input_data, predictions, results>>
    /\ UNCHANGED df

\* input_data = np.asarray([np.genfromtxt(f, delimiter=',') for f in file_names])
BatchLoad ==
    /\ bpc = "load"
    /\ input_data' = [i \in DOMAIN file_names |-> Genfromtxt(file_names[i])]
    /\ bpc' = "predict"
    /\ UNCHANGED <<batch_data, model, file_names, file_count, predictions, results>>
    /\ UNCHANGED df

\* predictions = model.predict(input_data)
BatchPredict ==
    /\ bpc = "predict"
    /\ predictions' = [i \in DOMAIN input_data |-> model[input_data[i]]]
    /\ bpc' = "write"
    /\ UNCHANGED <<batch_data, model, file_names, file_count, input_data, results>>
    /\ UNCHANGED df

\* for i in range(len(predictions)): output_file.write(...)
BatchWrite ==
    /\ bpc = "write"
    /\ Len(results) < Len(predictions)
    /\ results' = Append(results, ResultLine(Len(results) + 1))
    /\ UNCHANGED <<batch_data, model, bpc, file_names, file_count, input_data,
                   predictions>>
    /\ UNCHANGED df

\* output_file.close(); run.complete()
BatchComplete ==
    /\ bpc = "write"
    /\ Len(results) = Len(predictions)
    /\ bpc' = "done"
    /\ UNCHANGED <<batch_data, model, file_names, file_count, input_data,
                   predictions, results>>
    /\ UNCHANGED df

\* df = pd.read_csv("results.txt", delimiter=":", header=None)
\* df.columns = ["Filename", "Prediction"]
ReadResults ==
    /\ bpc = "done"
    /\ df = NoFrame
    /\ df' = SetColumns(ReadCsv(FileText(results), ":"), <<"Filename", "Prediction">>)
    /\ UNCHANGED <<batch_data, model, bpc, file_names, file_count, input_data,
                   predictions, results>>

(***************************************************************************)
(* The training pipeline: two script steps that pass model_folder, run by  *)
(* the service, each step's script by the script machine above.            *)
(***************************************************************************)
VARIABLES
    pipeline_steps, \* the list passed to Pipeline(steps=...)
    pipelineStatus, \* NotSubmitted, Running, Completed or Failed
    pipelineRuns,   \* submissions so far; the number of the current run
    stepStatus,     \* step name -> NotStarted, Running, Completed or Failed
    stepError,      \* step name -> how its script ended
    current,        \* the step whose script is running, "none" when none is
    model_folder,   \* the files in the PipelineData of the current run
    registry        \* the registered models of the workspace, oldest first

pipeVars == <<pipeline_steps, pipelineStatus, pipelineRuns, stepStatus, stepError,
              current, model_folder>>

train_step ==
    [name |-> "Train Model", script_name |-> "train_diabetes",
     inputs |-> {}, outputs |-> {"model_folder"}]

\* A second step that does not declare model_folder as its input.
register_step_without_input ==
    [name |-> "Register Model", script_name |-> "register_diabetes",
     inputs |-> {}, outputs |-> {}]

register_step ==
    [name |-> "Register Model", script_name |-> "register_diabetes",
     inputs |-> {"model_folder"}, outputs |-> {}]

Steps == {train_step, register_step}
StepNames == {s.name : s \in Steps}

\* A model some other notebook cell registered before, n versions of it.
Registered(n) ==
    [v \in 1..n |-> [name |-> "diabetes_model", version |-> v,
                     tag |-> "Estimator (from Datasource)", run |-> 0]]

\* Model.register(...): the next version of the model of that name.
Register(reg, tag, run) ==
    Append(reg, [name |-> "diabetes_model",
                 version |-> Cardinality({i \in DOMAIN reg :
                                            reg[i].name = "diabetes_model"}) + 1,
                 tag |-> tag, run |-> run])

\* The models in the workspace when a training run is submitted.
InitRegistry == \E n \in 0..MaxVersions : registry = Registered(n)
IdleRegistry == registry = <<>>

NotStartedYet == [n \in StepNames |-> "NotStarted"]
NoStepError == [n \in StepNames |-> "none"]

\* The pipeline is built from the two steps; the scheduling does not depend
\* on the position of a step in the list, so both orders are taken.
InitPipeline ==
    /\ pipeline_steps \in Listings(Steps)
    /\ pipelineStatus = "NotSubmitted"
    /\ pipelineRuns = 0
    /\ stepStatus = NotStartedYet
    /\ stepError = NoStepError
    /\ current = "none"
    /\ model_folder = {}

\* The state in which the pipeline machine rests while another one runs.
IdlePipeline ==
    /\ pipeline_steps = <<train_step, register_step>>
    /\ pipelineStatus = "NotSubmitted"
    /\ pipelineRuns = 0
    /\ stepStatus = NotStartedYet
    /\ stepError = NoStepError
    /\ current = "none"
    /\ model_folder = {}

\* experiment.submit(pipeline, regenerate_outputs=True)
SubmitPipeline ==
    /\ pipelineStatus # "Running"
    /\ pipelineRuns < MaxPipelineRuns
    /\ pipelineStatus' = "Running"
    /\ pipelineRuns' = pipelineRuns + 1
    /\ stepStatus' = NotStartedYet
    /\ stepError' = NoStepError
    /\ model_folder' = {}
    /\ UNCHANGED <<pipeline_steps, current, registry>>

\* A step can start when every data reference it takes as input is the
\* output of a step that has completed.
Ready(s) ==
    \A d \in s.inputs :
        \E p \in Steps : d \in p.outputs /\ stepStatus[p.name] = "Completed"

\* The service starts a step of the list: its script begins on the cluster.
StartStep(s) ==
    /\ pipelineStatus = "Running"
    /\ current = "none"
    /\ \E i \in DOMAIN pipeline_steps : pipeline_steps[i] = s
    /\ stepStatus[s.name] = "NotStarted"
    /\ Ready(s)
    /\ stepStatus' = [stepStatus EXCEPT ![s.name] = "Running"]
    /\ current' = s.name
    /\ script' = s.script_name
    /\ iters' = 0
    /\ sst' = Fresh
    /\ spc' = 1
    /\ exited' = FALSE
    /\ runStatus' = "Running"
    /\ UNCHANGED <<pipeline_steps, pipelineStatus, pipelineRuns, stepError,
                   model_folder, registry>>

\* The statements of the running script that have been executed.
Executed ==
    {i \in 1..(spc - 1) : i < spc - 1 \/ sst.error = "none"}

\* The script of the step has ended: what it dumped into model_folder is in
\* the data reference, what it registered is in the workspace.
FinishStep ==
    /\ current # "none"
    /\ exited
    /\ stepStatus' = [stepStatus EXCEPT ![current] = runStatus]
    /\ stepError' = [stepError EXCEPT ![current] = sst.error]
    /\ model_folder' = IF "model_folder/model.pkl" \in sst.files
                         THEN model_folder \cup {"model.pkl"}
                         ELSE model_folder
    /\ registry' = IF \E i \in Executed : ScriptText(script, iters)[i].call = "register"
                     THEN Register(registry, "Pipeline", pipelineRuns)
                     ELSE registry
    /\ current' = "none"
    /\ UNCHANGED <<pipeline_steps, pipelineStatus, pipelineRuns>>
    /\ UNCHANGED scriptVars

\* No step is running and none can start: the pipeline run has finished.
FinishPipeline ==
    /\ pipelineStatus = "Running"
    /\ current = "none"
    /\ \A s \in Steps : stepStatus[s.name] = "NotStarted" => ~Ready(s)
    /\ pipelineStatus' = IF \A n \in StepNames : stepStatus[n] = "Completed"
                           THEN "Completed" ELSE "Failed"
    /\ UNCHANGED <<pipeline_steps, pipelineRuns, stepStatus, stepError, current,
                   model_folder, registry>>

(***************************************************************************)
(* The Hyperdrive sweep: the service starts child runs of                  *)
(* diabetes_training.py for the values of the grid, and the notebook asks  *)
(* for the best run and registers its model.                               *)
(***************************************************************************)
VARIABLES
    sweepStatus,    \* NotSubmitted, Running or Finished
    children,       \* grid value -> the child runs started with it
    totalRuns,      \* child runs started so far
    nbpc,           \* the notebook: submit, best, register, done
    best_run,       \* what get_best_run_by_primary_metric returned
    bestAfterFinish \* whether it was asked when every child had finished

sweepVars == <<sweepStatus, children, totalRuns, nbpc, best_run, bestAfterFinish>>

\* choice(0.001, 0.005, 0.01, 0.05, 0.1, 1.0)
regularization == {"0.001", "0.005", "0.01", "0.05", "0.1", "1.0"}

\* BanditPolicy(evaluation_interval=2, slack_factor=0.1), the slack in tenths.
evaluation_interval == 2
slack_factor == 1

max_total_runs == 6
max_concurrent_runs == 4

\* The AUC a child run can report, as a number of steps above chance.
AUCs == 1..MaxAUC

NoChild == [runs |-> 0, status |-> "NotStarted", auc |-> 0]

\* A sampler that can draw a point of the grid again.
RandomSample == regularization

\* GridParameterSampling: the points of the grid not drawn yet.
GridSample == {v \in regularization : children[v].runs = 0}

\* What one child run does: diabetes_training.py with no call failing.
ChildScript == RunScript("diabetes_training_hyperdrive", 0)

\* How often the script reports the primary metric.
ChildReports ==
    Cardinality({i \in DOMAIN ChildScript.logged :
                    ChildScript.logged[i] = <<"log", "AUC">>})

\* The policy is applied at every evaluation_interval-th report of the metric.
PolicyApplies(reports) == reports >= evaluation_interval

\* Below the best metric reported so far divided by (1 + slack_factor).
Poor(auc, best) == auc * (10 + slack_factor) < best * 10

\* The best AUC any child has reported.
BestAUC ==
    LET reported == {children[v].auc : v \in regularization}
    IN  CHOOSE a \in reported : \A b \in reported : a >= b

Running == {v \in regularization : children[v].status = "Running"}

InitSweep ==
    /\ sweepStatus = "NotSubmitted"
    /\ children = [v \in regularization |-> NoChild]
    /\ totalRuns = 0
    /\ nbpc = "submit"
    /\ best_run = "None"
    /\ bestAfterFinish = FALSE

\* The state in which the sweep machine rests while another one runs.
IdleSweep ==
    /\ sweepStatus = "NotSubmitted"
    /\ children = [v \in regularization |-> NoChild]
    /\ totalRuns = 0
    /\ nbpc = "idle"
    /\ best_run = "None"
    /\ bestAfterFinish = FALSE

\* run = experiment.submit(config=hyperdrive); RunDetails(run).show()
SubmitSweep ==
    /\ nbpc = "submit"
    /\ sweepStatus' = "Running"
    /\ nbpc' = "best"
    /\ UNCHANGED <<children, totalRuns, best_run, bestAfterFinish, registry>>

\* The service starts a child run with a value drawn by the sampler.
StartChild(v) ==
    /\ sweepStatus = "Running"
    /\ totalRuns < max_total_runs
    /\ Cardinality(Running) < max_concurrent_runs
    /\ v \in GridSample
    /\ children' = [children EXCEPT ![v] =
                       [runs |-> @.runs + 1, status |-> "Running", auc |-> 0]]
    /\ totalRuns' = totalRuns + 1
    /\ UNCHANGED <<sweepStatus, nbpc, best_run, bestAfterFinish, registry>>

\* A child run runs its script: it reports its AUC as often as the script
\* logs it, the policy stops it when it applies and the run is poor, and
\* the run ends as the script ends otherwise.
ChildRun(v) ==
    /\ children[v].status = "Running"
    /\ \E a \in AUCs :
          LET reported == IF ChildReports > 0 THEN a ELSE 0
              stopped == PolicyApplies(ChildReports) /\ Poor(reported, BestAUC)
          IN  children' = [children EXCEPT ![v] =
                  [runs |-> @.runs,
                   status |-> IF stopped THEN "Canceled"
                              ELSE IF ChildScript.error # "none" THEN "Failed"
                              ELSE "Completed",
                   auc |-> reported]]
    /\ UNCHANGED <<sweepStatus, totalRuns, nbpc, best_run, bestAfterFinish, registry>>

\* The files of a child run the service keeps: what its script wrote.
Outputs(v) ==
    IF children[v].status \in {"Completed", "Failed"} THEN ChildScript.files ELSE {}

\* Every child run the sweep will start has ended.
FinishSweep ==
    /\ sweepStatus = "Running"
    /\ Running = {}
    /\ totalRuns = max_total_runs \/ GridSample = {}
    /\ sweepStatus' = "Finished"
    /\ UNCHANGED <<children, totalRuns, nbpc, best_run, bestAfterFinish, registry>>

\* best_run = run.get_best_run_by_primary_metric(): a child with the highest
\* AUC among those that reported one, whatever their status; the cell
\* raises on None when no child has reported yet and can be run again.
GetBestRun ==
    /\ nbpc = "best"
    /\ LET reported == {v \in regularization : children[v].auc > 0}
       IN  IF reported = {}
             THEN UNCHANGED <<nbpc, best_run, bestAfterFinish>>
             ELSE /\ best_run' \in {v \in reported : children[v].auc = BestAUC}
                  /\ bestAfterFinish' = (sweepStatus = "Finished")
                  /\ nbpc' = "register"
    /\ UNCHANGED <<sweepStatus, children, totalRuns, registry>>

\* best_run.register_model(model_path='outputs/diabetes_model.pkl', ...):
\* raises when the run has no such file.
RegisterBestRun ==
    /\ nbpc = "register"
    /\ registry' = IF "outputs/diabetes_model.pkl" \in Outputs(best_run)
                     THEN Register(registry, "Hyperdrive", best_run)
                     ELSE registry
    /\ nbpc' = "done"
    /\ UNCHANGED <<sweepStatus, children, totalRuns, best_run, bestAfterFinish>>

(***************************************************************************)
(* The cluster at work: the child runs of the Hyperdrive sweep and the     *)
(* iterations of the Auto ML run, launched by the service up to the        *)
(* concurrency each configuration asks for and executed on the nodes of    *)
(* the cluster.                                                            *)
(***************************************************************************)
VARIABLES
    nodes,          \* the maximum number of nodes of the cluster in use
    submitted,      \* the jobs submitted so far
    launched,       \* job -> child runs launched so far
    active,         \* job -> child runs launched and not ended
    executing       \* job -> child runs executing on a node

computeVars == <<nodes, submitted, launched, active, executing>>

\* automl_settings (the sweep's settings are above)
iterations == 10
max_concurrent_iterations == 4

ComputeJobs == {"hyperdrive", "automl"}

\* How many child runs a job has in all.
TotalRuns(j) == IF j = "hyperdrive" THEN max_total_runs ELSE iterations

\* A job that launches its child runs all at once.
Unthrottled(j) == TotalRuns(j)

\* How many child runs a job asks to have in progress at a time.
Concurrency(j) ==
    IF j = "hyperdrive" THEN max_concurrent_runs ELSE max_concurrent_iterations

\* The cluster is the one the notebooks create, or one of another size
\* that was provisioned under the same name before.
InitCompute ==
    /\ nodes \in {2, max_nodes}
    /\ submitted = {}
    /\ launched = [j \in ComputeJobs |-> 0]
    /\ active = [j \in ComputeJobs |-> 0]
    /\ executing = [j \in ComputeJobs |-> 0]

\* The state in which the compute machine rests while another one runs.
IdleCompute ==
    /\ nodes = max_nodes
    /\ submitted = {}
    /\ launched = [j \in ComputeJobs |-> 0]
    /\ active = [j \in ComputeJobs |-> 0]
    /\ executing = [j \in ComputeJobs |-> 0]

\* experiment.submit(config=hyperdrive), and later in the notebook
\* automl_experiment.submit(automl_config, show_output=True).
SubmitJob(j) ==
    /\ j \notin submitted
    /\ j = "automl" => "hyperdrive" \in submitted
    /\ submitted' = submitted \cup {j}
    /\ UNCHANGED <<nodes, launched, active, executing>>

\* The service launches the next child run of a job.
Launch(j) ==
    /\ j \in submitted
    /\ launched[j] < TotalRuns(j)
    /\ active[j] < Concurrency(j)
    /\ launched' = [launched EXCEPT ![j] = @ + 1]
    /\ active' = [active EXCEPT ![j] = @ + 1]
    /\ UNCHANGED <<nodes, submitted, executing>>

\* A queued child run gets a free node of the cluster.
Allocate(j) ==
    /\ executing[j] < active[j]
    /\ executing["hyperdrive"] + executing["automl"] < nodes
    /\ executing' = [executing EXCEPT ![j] = @ + 1]
    /\ UNCHANGED <<nodes, submitted, launched, active>>

\* A child run ends and frees its node.
EndChild(j) ==
    /\ executing[j] > 0
    /\ executing' = [executing EXCEPT ![j] = @ - 1]
    /\ active' = [active EXCEPT ![j] = @ - 1]
    /\ UNCHANGED <<nodes, submitted, launched>>

(***************************************************************************)
(* The registrations of 'diabetes_model': the exercises of the notebooks   *)
(* run in order, each a training run followed by the registration of the   *)
(* model file the run left.                                                *)
(***************************************************************************)
VARIABLES
    exercise,       \* the exercise being worked on, a position in Exercises
    phase,          \* "train" before its training run, "register" after it
    outputs,        \* the files the training run of the exercise left
    regCalls,       \* registration calls made so far
    faults,         \* runs that failed for a reason outside their script
    prior           \* how many versions the registry held at the start

regVars == <<exercise, phase, outputs, regCalls, faults, prior>>

\* A registration: the tag it gives, the script whose run trains the model,
\* the file it registers, and whether it is a notebook cell or a script of
\* its own that runs only after the training step has completed.
Ex(tag, script_name, model_path, in_step) ==
    [tag |-> tag, script_name |-> script_name, model_path |-> model_path,
     in_step |-> in_step]

Exercises ==
    << Ex("Azure ML compute", "diabetes_training_input",
          "outputs/diabetes_model.pkl", FALSE),
       Ex("SKL-Estimator", "diabetes_training_input",
          "outputs/diabetes_model.pkl", FALSE),
       Ex("Pipeline", "train_diabetes", "model_folder/model.pkl", TRUE),
       Ex("Experiment script", "diabetes_training_by_name",
          "outputs/diabetes_model.pkl", FALSE),
       Ex("Estimator", "diabetes_training_input",
          "outputs/diabetes_model.pkl", FALSE),
       Ex("Estimator (from Datasource)", "diabetes_training_data_folder",
          "outputs/diabetes_model.pkl", FALSE),
       Ex("Hyperdrive", "diabetes_training_hyperdrive",
          "outputs/diabetes_model.pkl", FALSE),
       Ex("Auto ML", "automl", "outputs/model.pkl", FALSE) >>

\* The files a training run leaves: what its script wrote before it ended;
\* the model of the best Auto ML iteration is written by the service.
RunOutputs(e) ==
    IF e.script_name = "automl" THEN {"outputs/model.pkl"}
    ELSE RunScript(e.script_name, 0).files

InitRegistrations ==
    /\ exercise = 1
    /\ phase = "train"
    /\ outputs = {}
    /\ regCalls = 0
    /\ faults = 0
    /\ prior = Len(registry)

\* The state in which the registration machine rests while another one runs.
IdleRegistrations ==
    /\ exercise = 1
    /\ phase = "idle"
    /\ outputs = {}
    /\ regCalls = 0
    /\ faults = 0
    /\ prior = 0

\* The training run of the exercise, submitted and run to its end; the
\* service can fail a run whatever its script does.
TrainingRun ==
    /\ phase = "train"
    /\ exercise <= Len(Exercises)
    /\ \E fault \in BOOLEAN :
          /\ outputs' = IF fault THEN {} ELSE RunOutputs(Exercises[exercise])
          /\ faults' = IF fault THEN faults + 1 ELSE faults
    /\ phase' = "register"
    /\ UNCHANGED <<exercise, regCalls, prior, registry>>

\* run.register_model(model_path=..., model_name='diabetes_model', tags=...)
\* or Model.register(...): a new version when the run has the file, an
\* exception when it has not.  The registration script of the pipeline is
\* not run at all when the training step has not left the file.
RegisterCall ==
    /\ phase = "register"
    /\ LET e == Exercises[exercise]
           has == e.model_path \in outputs
       IN  /\ regCalls' = IF e.in_step /\ ~has THEN regCalls ELSE regCalls + 1
           /\ registry' = IF has THEN Register(registry, e.tag, exercise)
                          ELSE registry
    /\ exercise' = exercise + 1
    /\ phase' = "train"
    /\ UNCHANGED <<outputs, faults, prior>>

(***************************************************************************)
(* The dataset cells: the csv file is uploaded to the default datastore,   *)
(* a tabular dataset is made from it, the dataset is registered under      *)
(* dataset_name, and later cells look the name up.                         *)
(***************************************************************************)
VARIABLES
    default_ds,     \* the paths uploaded to the default datastore
    datasets,       \* the datasets registered in the workspace, oldest first
    data_set,       \* the notebook's variable data_set
    diabetes_ds,    \* what ws.datasets.get(dataset_name) returned last
    dsError,        \* the exception the last dataset cell ended with, or "none"
    dsRuns,         \* how often the registration cell has been executed
    dsPrior         \* the datasets registered when the session began

datasetVars == <<default_ds, datasets, data_set, diabetes_ds, dsError, dsRuns, dsPrior>>

dataset_name == "Diabetes Dataset"
create_new_version == TRUE

Dataset(name, version, path) == [name |-> name, version |-> version, path |-> path]
Unbound == Dataset("", 0, "")
NoDataset == Dataset("None", 0, "")

\* The versions registered under a name.
Versions(reg, name) == {reg[i].version : i \in {j \in 1..Len(reg) : reg[j].name = name}}

Latest(reg, name) ==
    IF Versions(reg, name) = {} THEN NoDataset
    ELSE CHOOSE d \in {reg[i] : i \in 1..Len(reg)} :
            /\ d.name = name
            /\ \A v \in Versions(reg, name) : v <= d.version

\* Dataset.register without create_new_version: a name that is taken is refused.
RegisterOnce(reg, d, name, new_version) ==
    IF Versions(reg, name) = {}
    THEN [error |-> "none", datasets |-> Append(reg, Dataset(name, 1, d.path))]
    ELSE [error |-> "UserErrorException", datasets |-> reg]

\* Dataset.register: a name that is free gets version 1; a name that is taken
\* gets the next version when create_new_version is set, and is refused when not.
DatasetRegister(reg, d, name, new_version) ==
    IF Versions(reg, name) = {}
    THEN [error |-> "none", datasets |-> Append(reg, Dataset(name, 1, d.path))]
    ELSE IF new_version
         THEN [error |-> "none",
               datasets |-> Append(reg, Dataset(name, Latest(reg, name).version + 1, d.path))]
         ELSE [error |-> "UserErrorException", datasets |-> reg]

InitDatasets ==
    /\ default_ds = {}
    /\ \E n \in 0..1 :
          datasets = [i \in 1..n |-> Dataset(dataset_name, i, "diabetes-data/diabetes.csv")]
    /\ dsPrior = datasets
    /\ data_set = Unbound
    /\ diabetes_ds = Unbound
    /\ dsError = "none"
    /\ dsRuns = 0

IdleDatasets ==
    /\ default_ds = {}
    /\ datasets = <<>>
    /\ dsPrior = <<>>
    /\ data_set = Unbound
    /\ diabetes_ds = Unbound
    /\ dsError = "none"
    /\ dsRuns = 0

\* default_ds.upload_files(files=['./data/diabetes.csv'], target_path='diabetes-data/',
\*                         overwrite=True)
UploadFiles ==
    /\ default_ds' = default_ds \cup {"diabetes-data/diabetes.csv"}
    /\ dsError' = "none"
    /\ UNCHANGED <<datasets, data_set, diabetes_ds, dsRuns, dsPrior>>

\* data_set = Dataset.Tabular.from_delimited_files(path=(default_ds, 'diabetes-data/diabetes.csv'))
FromDelimitedFiles ==
    /\ IF "diabetes-data/diabetes.csv" \in default_ds
       THEN /\ data_set' = Dataset("", 0, "diabetes-data/diabetes.csv")
            /\ dsError' = "none"
       ELSE /\ data_set' = data_set
            /\ dsError' = "DatasetValidationError"
    /\ UNCHANGED <<default_ds, datasets, diabetes_ds, dsRuns, dsPrior>>

\* data_set = data_set.register(workspace=ws, name=dataset_name, ...,
\*                              create_new_version=True)
RegisterDataset ==
    /\ dsRuns < MaxDatasetRuns
    /\ dsRuns' = dsRuns + 1
    /\ IF data_set = Unbound
       THEN /\ dsError' = "NameError"
            /\ UNCHANGED <<datasets, data_set>>
       ELSE LET r == DatasetRegister(datasets, data_set, dataset_name, create_new_version)
            IN  /\ dsError' = r.error
                /\ datasets' = r.datasets
                /\ data_set' = IF r.error = "none"
                               THEN r.datasets[Len(r.datasets)] ELSE data_set
    /\ UNCHANGED <<default_ds, diabetes_ds, dsPrior>>

\* diabetes_ds = ws.datasets.get("Diabetes Dataset")
GetDataset ==
    /\ diabetes_ds' = Latest(datasets, dataset_name)
    /\ dsError' = "none"
    /\ UNCHANGED <<default_ds, datasets, data_set, dsRuns, dsPrior>>

(***************************************************************************)
(* The published pipeline called over REST: the POST that starts a run,    *)
(* the cell that fetches the run by its identifier and the cell that       *)
(* downloads results.txt from its first child.  The cells are executed in  *)
(* any order, any number of times, while the service runs the pipelines.   *)
(***************************************************************************)
VARIABLES
    pipelineRunsSvc,        \* the pipeline runs the service holds: [id, experiment]
    stepRunsSvc,            \* the step runs the service holds: [id, parent, files]
    posts,                  \* <<ExperimentName of the body, Id of the response>> of every POST
    run_id,                 \* the notebook's variable run_id, 0 when unbound
    published_run, \* the notebook's variable published_run
    step_run,               \* the notebook's variable step_run
    downloaded,             \* the file the last download wrote: [file, step, parent, of]
    restError               \* the exception the last REST cell ended with, or "none"

restVars == <<pipelineRunsSvc, stepRunsSvc, posts, run_id, published_run,
              step_run, downloaded, restError>>

experiment_name == "batch_pipeline"
Batch_Pipeline_via_REST == "Batch_Pipeline_via_REST"

PipelineRunRecord(id, experiment) == [id |-> id, experiment |-> experiment]
NoRun == PipelineRunRecord(0, "")
StepRunRecord(id, parent, files) == [id |-> id, parent |-> parent, files |-> files]
NoStepRun == StepRunRecord(0, 0, {})
NoDownload == [file |-> "", step |-> 0, parent |-> 0, of |-> 0]

\* ws.experiments: the names of the experiments that hold a run.
Experiments(runs) == {r.experiment : r \in runs}

\* PipelineRun(experiment, run_id): the run of that identifier in that experiment.
PipelineRun(runs, experiment, id) ==
    IF \E r \in runs : r.id = id /\ r.experiment = experiment
    THEN PipelineRunRecord(id, experiment)
    ELSE NoRun

\* The step runs of the whole workspace, whatever run they belong to.
AllStepRuns(steps, run) == steps

\* run.get_children(): the step runs whose parent is the run.
GetChildren(steps, run) == {c \in steps : c.parent = run.id}

\* list(...)[0]
First(cs) == CHOOSE c \in cs : \A d \in cs : c.id <= d.id

\* The pipeline run of the 'batch_pipeline' experiment was submitted and waited
\* for before the pipeline was published: it is run 1 and its step is step 1.
InitRest ==
    /\ pipelineRunsSvc = {PipelineRunRecord(1, experiment_name)}
    /\ stepRunsSvc = {StepRunRecord(1, 1, {"outputs/results.txt"})}
    /\ posts = {}
    /\ run_id = 0
    /\ published_run = NoRun
    /\ step_run = NoStepRun
    /\ downloaded = NoDownload
    /\ restError = "none"

IdleRest ==
    /\ pipelineRunsSvc = {}
    /\ stepRunsSvc = {}
    /\ posts = {}
    /\ run_id = 0
    /\ published_run = NoRun
    /\ step_run = NoStepRun
    /\ downloaded = NoDownload
    /\ restError = "none"

NextRunId == 1 + Cardinality(pipelineRunsSvc)
NextStepId == 1 + Cardinality(stepRunsSvc)

\* response = requests.post(rest_endpoint, headers=auth_header,
\*                          json={"ExperimentName": "Batch_Pipeline_via_REST"})
\* run_id = response.json()["Id"]
\* A request the service refuses answers with an error body that has no "Id".
Post ==
    /\ Cardinality(posts) < MaxPosts
    /\ \E accepted \in BOOLEAN :
          IF accepted
          THEN /\ pipelineRunsSvc' = pipelineRunsSvc \cup
                      {PipelineRunRecord(NextRunId, Batch_Pipeline_via_REST)}
               /\ posts' = posts \cup {<<Batch_Pipeline_via_REST, NextRunId>>}
               /\ run_id' = NextRunId
               /\ restError' = "none"
          ELSE /\ restError' = "KeyError"
               /\ UNCHANGED <<pipelineRunsSvc, posts, run_id>>
    /\ UNCHANGED <<stepRunsSvc, published_run, step_run, downloaded>>

\* published_pipeline_run = PipelineRun(ws.experiments["Batch_Pipeline_via_REST"], run_id)
\* RunDetails(published_pipeline_run).show()
FetchRun ==
    /\ IF run_id = 0
       THEN restError' = "NameError" /\ UNCHANGED published_run
       ELSE IF Batch_Pipeline_via_REST \notin Experiments(pipelineRunsSvc)
       THEN restError' = "KeyError" /\ UNCHANGED published_run
       ELSE /\ published_run' =
                  PipelineRun(pipelineRunsSvc, Batch_Pipeline_via_REST, run_id)
            /\ restError' = "none"
    /\ UNCHANGED <<pipelineRunsSvc, stepRunsSvc, posts, run_id, step_run, downloaded>>

\* step_run = list(published_pipeline_run.get_children())[0]
\* step_run.get_file_names()
\* step_run.download_file("./outputs/results.txt")
Download ==
    /\ IF published_run = NoRun
       THEN restError' = "NameError" /\ UNCHANGED <<step_run, downloaded>>
       ELSE LET stepRuns == GetChildren(stepRunsSvc, published_run)
            IN  IF stepRuns = {}
                THEN restError' = "IndexError" /\ UNCHANGED <<step_run, downloaded>>
                ELSE /\ step_run' = First(stepRuns)
                     /\ IF "outputs/results.txt" \in First(stepRuns).files
                        THEN /\ downloaded' = [file |-> "results.txt",
                                               step |-> First(stepRuns).id,
                                               parent |-> First(stepRuns).parent,
                                               of |-> published_run.id]
                             /\ restError' = "none"
                        ELSE /\ restError' = "UserErrorException"
                             /\ UNCHANGED downloaded
    /\ UNCHANGED <<pipelineRunsSvc, stepRunsSvc, posts, run_id, published_run>>

\* The service starts the batch_scoring step of a pipeline run.
StartStepRun ==
    /\ \E r \in pipelineRunsSvc :
          /\ GetChildren(stepRunsSvc, r) = {}
          /\ stepRunsSvc' = stepRunsSvc \cup {StepRunRecord(NextStepId, r.id, {})}
    /\ UNCHANGED <<pipelineRunsSvc, posts, run_id, published_run, step_run,
                   downloaded, restError>>

\* batch_diabetes.py writes outputs/results.txt and the step run ends.
FinishStepRun ==
    /\ \E c \in stepRunsSvc :
          /\ c.files = {}
          /\ stepRunsSvc' = (stepRunsSvc \ {c}) \cup
                                {StepRunRecord(c.id, c.parent, {"outputs/results.txt"})}
          /\ step_run' = IF step_run = c
                         THEN StepRunRecord(c.id, c.parent, {"outputs/results.txt"})
                         ELSE step_run
    /\ UNCHANGED <<pipelineRunsSvc, posts, run_id, published_run,
                   downloaded, restError>>

(***************************************************************************)
(* The notebooks executed in document order: the cells that write an       *)
(* entry script to the experiment folder, that register the dataset, that  *)
(* set script_params and that configure and submit a run.  A cell that     *)
(* raises ends, and the user goes on with the next cell.                   *)
(***************************************************************************)
VARIABLES
    notebook,       \* the notebook being executed, "none" between two
    cellNo,         \* the next cell of the notebook
    folder,         \* the experiment folders: file -> the script text it holds
    registered,     \* service: TRUE when 'Diabetes Dataset' is registered
    script_params,  \* the notebook's variable script_params
    submissions,    \* what every submission carried, and the script it started
    notebooksRun    \* notebooks executed so far

notebookVars == <<notebook, cellNo, folder, registered, script_params, submissions,
                  notebooksRun>>

Files == {"diabetes-experiment/diabetes_experiment.py", "diabetes-experiment/diabetes.csv",
          "diabetes_training/diabetes_training.py", "diabetes_pipeline/train_diabetes.py"}

\* %%writefile $experiment_folder/<file>
WriteFile(file, text) ==
    [kind |-> "writefile", file |-> file, text |-> text, inputs |-> {},
     arguments |-> {}, named |-> FALSE]

\* shutil.copy('data/diabetes.csv', os.path.join(experiment_name, "diabetes.csv"))
CopyData ==
    [kind |-> "writefile", file |-> "diabetes-experiment/diabetes.csv", text |-> "csv",
     inputs |-> {}, arguments |-> {}, named |-> FALSE]

\* data_set.register(workspace=ws, name='Diabetes Dataset', ...)
RegisterCell ==
    [kind |-> "register", file |-> "", text |-> "", inputs |-> {}, arguments |-> {},
     named |-> FALSE]

\* script_params = {...}
SetParams(params) ==
    [kind |-> "script_params", file |-> "", text |-> "", inputs |-> {},
     arguments |-> params, named |-> FALSE]

\* experiment.submit(config) of a configuration whose entry script is the
\* file: inputs are the named dataset inputs it passes, arguments the
\* parameters it passes itself, named whether it passes script_params.
Submit(file, inputs, arguments, named) ==
    [kind |-> "submit", file |-> file, text |-> "", inputs |-> inputs,
     arguments |-> arguments, named |-> named]

\* Exercise 2 - Getting Started with Experiments
getting_started ==
    << CopyData,
       WriteFile("diabetes-experiment/diabetes_experiment.py", "diabetes_experiment"),
       Submit("diabetes-experiment/diabetes_experiment.py", {}, {}, FALSE) >>

\* Exercise 3 - From Data to Model
from_data_to_model ==
    << RegisterCell,
       WriteFile("diabetes_training/diabetes_training.py", "diabetes_training_by_name"),
       Submit("diabetes_training/diabetes_training.py", {}, {}, FALSE),
       WriteFile("diabetes_training/diabetes_training.py", "diabetes_training_input"),
       Submit("diabetes_training/diabetes_training.py", {"diabetes"}, {"--regularization"},
              FALSE),
       SetParams({"--regularization", "--data-folder"}),
       WriteFile("diabetes_training/diabetes_training.py", "diabetes_training_data_folder"),
       Submit("diabetes_training/diabetes_training.py", {}, {}, TRUE) >>

\* Exercise 4 with an estimator that passes no dataset input.
compute_contexts_without_input ==
    << WriteFile("diabetes_training/diabetes_training.py", "diabetes_training_input"),
       Submit("diabetes_training/diabetes_training.py", {}, {"--regularization"}, FALSE) >>

\* Exercise 4 - Compute Contexts
compute_contexts ==
    << WriteFile("diabetes_training/diabetes_training.py", "diabetes_training_input"),
       Submit("diabetes_training/diabetes_training.py", {"diabetes"}, {"--regularization"},
              FALSE),
       Submit("diabetes_training/diabetes_training.py", {"diabetes"}, {"--regularization"},
              FALSE) >>

\* Exercise 5 - Optimizing Model Training
optimizing_model_training ==
    << WriteFile("diabetes_training/diabetes_training.py", "diabetes_training_hyperdrive"),
       Submit("diabetes_training/diabetes_training.py", {}, {"--regularization"}, FALSE) >>

\* Exercise 7 - Automating ML Workflows with Pipelines
pipelines ==
    << WriteFile("diabetes_pipeline/train_diabetes.py", "train_diabetes"),
       Submit("diabetes_pipeline/train_diabetes.py", {},
              {"--dataset_name", "--regularization", "--output_folder"}, FALSE) >>

Notebooks == {"getting_started", "from_data_to_model", "compute_contexts",
              "optimizing_model_training", "pipelines"}

NotebookCells(n) ==
    CASE n = "getting_started" -> getting_started
      [] n = "from_data_to_model" -> from_data_to_model
      [] n = "compute_contexts" -> compute_contexts
      [] n = "optimizing_model_training" -> optimizing_model_training
      [] n = "pipelines" -> pipelines

\* What a script reads that the submission or the workspace has to provide:
\* a named dataset input, the dataset by its name, the --data-folder
\* parameter (the one parameter without a default), the csv file beside it.
Reads(text) ==
    {<<text[i].call, text[i].arg>> : i \in
        {j \in 1..Len(text) :
            \/ text[j].call \in {"input_datasets", "get_by_name"}
            \/ text[j].call = "parse_args" /\ text[j].arg = "--data-folder"
            \/ text[j].call = "read_csv" /\ text[j].arg = "./diabetes.csv"}}

\* Whether the run a submission started finds what its script reads.
Finds(sub, read) ==
    CASE read[1] = "input_datasets" -> read[2] \in sub.inputs
      [] read[1] = "get_by_name" -> sub.registered
      [] read[1] = "parse_args" -> read[2] \in sub.arguments
      [] read[1] = "read_csv" -> sub.csv

\* Any experiment folder left by an earlier session, any state of the workspace.
InitNotebooks ==
    /\ notebook = "none"
    /\ cellNo = 1
    /\ \E old \in {"absent", "diabetes_training_by_name", "diabetes_training_input",
                   "diabetes_training_data_folder", "diabetes_training_hyperdrive"} :
          folder = [f \in Files |->
                      IF f = "diabetes_training/diabetes_training.py" THEN old ELSE "absent"]
    /\ registered \in BOOLEAN
    /\ script_params = {}
    /\ submissions = {}
    /\ notebooksRun = 0

IdleNotebooks ==
    /\ notebook = "none"
    /\ cellNo = 1
    /\ folder = [f \in Files |-> "absent"]
    /\ registered = FALSE
    /\ script_params = {}
    /\ submissions = {}
    /\ notebooksRun = 0

\* The user opens a notebook: a new kernel, the files and the workspace stay.
OpenNotebook(n) ==
    /\ notebook = "none"
    /\ notebooksRun < MaxNotebooks
    /\ notebook' = n
    /\ cellNo' = 1
    /\ script_params' = {}
    /\ notebooksRun' = notebooksRun + 1
    /\ UNCHANGED <<folder, registered, submissions>>

\* The next cell of the notebook.  The cell of an estimator with a dataset
\* input first asks for the dataset, ws.datasets.get("Diabetes Dataset"):
\* that is None when the dataset is not registered, as_named_input raises
\* AttributeError and the cell ends before its submit.
RunCell ==
    /\ notebook # "none"
    /\ cellNo <= Len(NotebookCells(notebook))
    /\ LET c == NotebookCells(notebook)[cellNo]
       IN  /\ folder' = IF c.kind = "writefile" THEN [folder EXCEPT ![c.file] = c.text]
                        ELSE folder
           /\ registered' = (registered \/ c.kind = "register")
           /\ script_params' = IF c.kind = "script_params" THEN c.arguments
                               ELSE script_params
           /\ submissions' =
                IF c.kind = "submit" /\ (c.inputs = {} \/ registered)
                                     /\ folder[c.file] # "absent"
                THEN submissions \cup
                       {[notebook |-> notebook,
                         script |-> folder[c.file],
                         inputs |-> c.inputs,
                         arguments |-> IF c.named THEN script_params ELSE c.arguments,
                         registered |-> registered,
                         csv |-> folder["diabetes-experiment/diabetes.csv"] # "absent"]}
                ELSE submissions
    /\ cellNo' = cellNo + 1
    /\ UNCHANGED <<notebook, notebooksRun>>

\* The last cell has run; the user closes the notebook.
CloseNotebook ==
    /\ notebook # "none"
    /\ cellNo > Len(NotebookCells(notebook))
    /\ notebook' = "none"
    /\ cellNo' = 1
    /\ UNCHANGED <<folder, registered, script_params, submissions, notebooksRun>>

(***************************************************************************)
(* Claims about the session.                                               *)
(***************************************************************************)

\* C1: in a 'get or create cluster' cell ComputeTarget.create is called if
\* and only if the lookup raised ComputeTargetException; when the lookup
\* succeeds no create call is made and the cluster it returned is the one
\* bound to cpu_cluster; a cell that runs to its end, by either branch, has
\* called wait_for_completion on the cluster bound to cpu_cluster.
GetOrCreateCluster ==
    /\ creates > 0 => lookup = ComputeTargetException
    /\ (lookup = ComputeTargetException /\ pc # "cl_create") => creates = 1
    /\ lookup = "found" =>
          /\ creates = 0
          /\ found # NoCluster
          /\ cpu_cluster = found
    /\ (pc = "done" /\ lookup \in {"found", ComputeTargetException}) =>
          /\ cpu_cluster # NoCluster
          /\ waited = cpu_cluster
    /\ \A b \in branches : b \in {"found", ComputeTargetException}

\* C1 witness: both branches have run to their end, the last one by creating
\* the cluster and waiting for it.
GetOrCreateClusterWitness ==
    /\ branches = {"found", ComputeTargetException}
    /\ pc = "done"
    /\ lookup = ComputeTargetException
    /\ creates = 1
    /\ waited = cpu_cluster
    /\ cpu_cluster = cluster

\* C2 as stated: the only failure handled locally is compute target not
\* found; every other failure reaches the notebook user.
OnlyComputeTargetNotFoundHandled ==
    handled \subseteq {<<"ComputeTarget", ComputeTargetException>>}

\* C2 as amended: the failures handled locally are compute target not found
\* in the cluster cells and any exception of the workspace lookup in the
\* set-up cell; every other failure reaches the notebook user, ends the cell
\* and is never handled.
LocalHandling ==
    /\ \A h \in handled :
          \/ h = <<"ComputeTarget", ComputeTargetException>>
          \/ h[1] = "Workspace"
    /\ handled \cap surfaced = {}
    /\ exc # <<>> => exc \notin handled
    /\ pc = "error" => (cell = "idle" /\ exc \in surfaced)

\* C2 witness: a workspace lookup failure and a missing cluster were handled
\* locally and a training script error reached the user.
LocalHandlingWitness ==
    /\ <<"Workspace", "WorkspaceException">> \in handled
    /\ <<"ComputeTarget", ComputeTargetException>> \in handled
    /\ <<"submit", "ActivityFailedException">> \in surfaced
    /\ pc = "error"

\* C19 as stated: as long as the cluster is not deleted, all the executions
\* of the cluster cells together make at most one ComputeTarget.create call,
\* and every execution after it takes the 'found existing cluster' branch.
AtMostOneCreateCall ==
    (\A i \in 1..Len(creations) : creations[i] # "deleted") =>
        /\ Len(creations) <= 1
        /\ (Len(creations) = 1 /\ creates = 0 /\ cell \in ClusterCells /\ pc = "cl_wait")
              => lookup = "found"

\* C19 as amended: as long as the cluster is not deleted, at most one
\* ComputeTarget.create call succeeds, no create call is made while the
\* cluster exists, and an execution whose lookup returns or raises
\* ComputeTargetException while the cluster exists takes the 'found' branch.
\* A create call that raised left no cluster: the next execution calls
\* create again.
AtMostOneCreation ==
    (\A i \in 1..Len(creations) : creations[i] # "deleted") =>
        /\ Cardinality({i \in 1..Len(creations) : creations[i] = "created"}) <= 1
        /\ \A i \in 1..Len(creations) :
              creations[i] = "created" => i = Len(creations)
        /\ (cluster # NoCluster /\ creates = 0) => lookup # ComputeTargetException
        /\ pc = "cl_create" => cluster = NoCluster

\* C19 witness: the first create call raised, the next execution created
\* the cluster and the one after it found it.
AtMostOneCreationWitness ==
    /\ creations = <<"raised", "created">>
    /\ cellRuns = 3
    /\ cell \in ClusterCells
    /\ lookup = "found"
    /\ creates = 0
    /\ cpu_cluster = cluster
    /\ pc = "cl_wait"

CreateAttemptedOnLookupFailure ==
    (pc \in {"done", "error"} /\ attempts # {}) =>
        /\ lookup # "ws_found" =>
              \E a \in attempts :
                  /\ a[1] = "Workspace.create"
                  /\ <<"Workspace", a[2]>> \in attempts
        /\ ws # None => (saved = ws /\ config # NoConfig)

(***************************************************************************)
(* Claims about the scripts.                                               *)
(***************************************************************************)

\* C7: in every script and in the inline experiment run.complete() is the
\* last action on the run: once it has been called every metric, row, image
\* and file the script logs or writes has been logged or written, nothing is
\* logged to the run afterwards, and a run is Completed only when its script
\* has called run.complete().
CompleteIsLast ==
    /\ sst.complete =>
          /\ sst.logged = LogStatements(ScriptSource(script, iters))
          /\ sst.files = FilesWritten(ScriptSource(script, iters))
    /\ sst.after = 0
    /\ runStatus = "Completed" => sst.complete

\* C7 witness: diabetes_experiment.py has logged its metric, images and rows,
\* uploaded its file and completed its run.
CompleteIsLastWitness ==
    /\ script = "diabetes_experiment"
    /\ iters = MaxLoop
    /\ sst.complete
    /\ Len(sst.logged) = 2 + 2 * MaxLoop
    /\ runStatus = "Completed"
    /\ exited

\* C18: every execution of a training script that has fitted the model and
\* logged its metrics has written the model file and called run.complete()
\* when it ends.
ModelFileBeforeComplete ==
    ( /\ script \in {"diabetes_training_by_name", "diabetes_training_input",
                     "diabetes_training_data_folder", "diabetes_training_hyperdrive",
                     "train_diabetes"}
      /\ exited
      /\ "model" \in sst.bound
      /\ sst.logged = LogStatements(ScriptSource(script, iters)) ) =>
        /\ sst.files = FilesWritten(ScriptSource(script, iters))
        /\ sst.complete

\* C23: in the inline experiment and in every script, once a statement
\* between obtaining the run and run.complete() has raised, run.complete()
\* has not been called and is never called, no local code finalizes or fails
\* the run (the inline run stays Running; a submitted run is never
\* Completed), and what was logged before the failure is still logged: the
\* log is the script's log statements up to the one that raised.
FailureLeavesRunOpen ==
    sst.error # "none" =>
        /\ ~sst.complete
        /\ sst.after = 0
        /\ runStatus # "Completed"
        /\ script = "inline_experiment" => runStatus = "Running"
        /\ Len(sst.logged) <= Len(LogStatements(ScriptSource(script, iters)))
        /\ sst.logged = SubSeq(LogStatements(ScriptSource(script, iters)),
                               1, Len(sst.logged))

\* C23 witness: the inline experiment has logged its metric, images and rows,
\* the upload of the sample file has raised, and the cell has ended with the
\* run still Running.
FailureLeavesRunOpenWitness ==
    /\ script = "inline_experiment"
    /\ iters = MaxLoop
    /\ sst.error = "Exception"
    /\ Len(sst.logged) = 1 + 2 * MaxLoop
    /\ ~sst.complete
    /\ runStatus = "Running"
    /\ exited

(***************************************************************************)
(* Claims about batch scoring.                                             *)
(***************************************************************************)
\* C4: results.txt has exactly one line for each CSV file of the input
\* folder; the i-th line is '<base name of the i-th globbed file>: <the
\* prediction of the model for the record in that same file>'; the logged
\* 'File Count' is the number of lines written.
OneLinePerFile ==
    bpc = "done" =>
        /\ Len(results) = Cardinality(DOMAIN batch_data)
        /\ \A i \in DOMAIN results :
              /\ file_names[i][1] = input_dir
              /\ file_names[i][2] \in DOMAIN batch_data
              /\ results[i] = file_names[i][2] \o ": "
                                \o ToString(model[batch_data[file_names[i][2]]])
                                \o "\n"
        /\ \A f \in DOMAIN batch_data : \E i \in DOMAIN results : file_names[i][2] = f
        /\ file_count = Len(results)

\* C4 witness: three files listed out of their numeric order, scored to
\* different predictions, and written.
OneLinePerFileWitness ==
    /\ bpc = "done"
    /\ Len(results) = 3
    /\ file_names[1] = <<input_dir, "3.csv">>
    /\ results[1] = "3.csv: 1\n"
    /\ results[2] = "1.csv: 0\n"
    /\ file_count = 3

\* C22: results.txt read back with ':' as the delimiter and no header is a
\* frame of exactly two columns, Filename and Prediction, with one row for
\* each scored file; the Filename of a row is the base name of the file and
\* its Prediction the prediction written for it.  Every line the script can
\* write for a file name 1.csv .. 100.csv has exactly these two fields.
ResultsReadBack ==
    /\ df # NoFrame =>
          /\ df.error = "none"
          /\ df.columns = <<"Filename", "Prediction">>
          /\ Len(df.rows) = Cardinality(DOMAIN batch_data)
          /\ \A i \in 1..Len(df.rows) :
                /\ Len(df.rows[i]) = 2
                /\ df.rows[i][1] = Split(file_names[i])[2]
                /\ ParseNumber(df.rows[i][2]) = ToString(predictions[i])
          /\ {df.rows[i][1] : i \in 1..Len(df.rows)} = DOMAIN batch_data
    /\ bpc = "glob" =>
          \A name \in SavedFiles(batch_files) : \A class \in Classes :
              Fields(name \o ": " \o ToString(class), ":") = <<name, " " \o ToString(class)>>

\* C22 witness: three files listed out of their numeric order were scored,
\* and the file was read back into three rows.
ResultsReadBackWitness ==
    /\ df.error = "none"
    /\ Len(df.rows) = 3
    /\ df.rows[1] = <<"3.csv", " 1">>
    /\ df.rows[2][1] = "1.csv"
    /\ predictions[2] = 0

(***************************************************************************)
(* Claims about the training pipeline.                                     *)
(***************************************************************************)
\* C5: the 'Register Model' step never starts before the 'Train Model' step
\* has completed, whatever the order of the two steps in the list.
RegisterAfterTrain ==
    stepStatus["Register Model"] # "NotStarted" =>
        stepStatus["Train Model"] = "Completed"

\* C5 witness: the list names the register step first, the service has
\* started the train step, and the register step has not started.
RegisterAfterTrainWitness ==
    /\ pipeline_steps = <<register_step, train_step>>
    /\ stepStatus["Train Model"] = "Running"
    /\ current = "Train Model"
    /\ spc > 1
    /\ stepStatus["Register Model"] = "NotStarted"

\* C6 as stated: when the training pipeline run has finished with no call
\* on the service having failed, a new version of 'diabetes_model' tagged
\* 'Pipeline' has been registered from the model.pkl of this run.
PipelineModelRegistered ==
    (/\ pipelineStatus \in {"Completed", "Failed"}
     /\ \A n \in StepNames : stepError[n] # "Exception") =>
        /\ "model.pkl" \in model_folder
        /\ \E i \in DOMAIN registry :
              /\ registry[i].name = "diabetes_model"
              /\ registry[i].tag = "Pipeline"
              /\ registry[i].run = pipelineRuns
              /\ registry[i].version = i

(***************************************************************************)
(* Claims about the Hyperdrive sweep.                                      *)
(***************************************************************************)
\* C8: with the grid of six values and max_total_runs=6 the sweep starts
\* exactly one child run for each value and never two with the same value.
OneChildPerValue ==
    /\ Cardinality(regularization) = 6
    /\ \A v \in regularization : children[v].runs <= 1
    /\ totalRuns = Cardinality({v \in regularization : children[v].runs > 0})
    /\ sweepStatus = "Finished" => \A v \in regularization : children[v].runs = 1

\* C8 witness: the sweep has finished with a child run for each value.
OneChildPerValueWitness ==
    /\ sweepStatus = "Finished"
    /\ totalRuns = 6
    /\ \A v \in regularization :
          children[v].runs = 1 /\ children[v].status # "Running"

\* C9 as stated: asked when all child runs have finished, the best run has
\* an AUC at least that of every completed child, and the model registered
\* in the following cell is the one that run produced.
BestRunModelRegistered ==
    (nbpc = "done" /\ bestAfterFinish) =>
        /\ \A v \in regularization :
              children[v].status = "Completed" =>
                  children[best_run].auc >= children[v].auc
        /\ \E i \in DOMAIN registry :
              /\ registry[i].name = "diabetes_model"
              /\ registry[i].tag = "Hyperdrive"
              /\ registry[i].run = best_run

\* C10 as stated: a child run whose reported AUC is below the best AUC
\* reported so far divided by (1 + 0.1) is terminated by the policy.
PoorRunsTerminated ==
    [][\A v \in regularization :
          (/\ children[v].status = "Running"
           /\ children'[v].status # "Running"
           /\ Poor(children'[v].auc, BestAUC)) =>
              children'[v].status = "Canceled"]_sweepVars

(***************************************************************************)
(* Claims about the cluster at work.                                       *)
(***************************************************************************)
\* C11: never more than four child runs of the sweep, nor more than four
\* Auto ML iterations, are in progress or executing at a time, and the
\* concurrency each configuration asks for does not exceed the max_nodes=4
\* the notebooks provision the cluster with.
ConcurrencyWithinCluster ==
    /\ \A j \in ComputeJobs : active[j] <= 4 /\ executing[j] <= active[j]
    /\ max_concurrent_runs <= max_nodes
    /\ max_concurrent_iterations <= max_nodes

\* C11 witness: four child runs of the sweep execute on a four-node
\* cluster while four Auto ML iterations are in progress.
ConcurrencyWitness ==
    /\ nodes = 4
    /\ executing["hyperdrive"] = 4
    /\ active["automl"] = 4
    /\ launched["automl"] > 4

(***************************************************************************)
(* Claims about the registrations.                                         *)
(***************************************************************************)
\* C12 as stated: every registration of 'diabetes_model' creates a version
\* numbered above every earlier one and leaves the earlier ones as they
\* were, and after the notebooks are run in order, no run having failed
\* for an outside reason, the registry holds one version for each
\* registration call, each with its own 'Training context' tag.
OneVersionPerRegistration ==
    /\ \A i, j \in DOMAIN registry : i < j => registry[i].version < registry[j].version
    /\ (exercise > Len(Exercises) /\ faults = 0) =>
          /\ Len(registry) - prior = regCalls
          /\ regCalls = Len(Exercises)
          /\ \A i, j \in (prior + 1)..Len(registry) :
                i # j => registry[i].tag # registry[j].tag

(***************************************************************************)
(* Claims about the datasets.                                              *)
(***************************************************************************)
\* C15: registering 'Diabetes Dataset' while the name is already registered
\* succeeds and adds the next version under the same name, every earlier
\* version staying as it was, and the name resolves to a registered dataset
\* afterwards.
NewDatasetVersion ==
    [][(dsRuns' = dsRuns + 1 /\ data_set # Unbound) =>
          /\ dsError' = "none"
          /\ Len(datasets') = Len(datasets) + 1
          /\ \A i \in 1..Len(datasets) : datasets'[i] = datasets[i]
          /\ data_set' = datasets'[Len(datasets')]
          /\ data_set'.name = dataset_name
          /\ \A v \in Versions(datasets, dataset_name) : v < data_set'.version
          /\ Latest(datasets', dataset_name) = data_set']_datasetVars

NewDatasetVersionWitness ==
    /\ dsRuns = 2
    /\ Len(dsPrior) = 1
    /\ Len(datasets) = 3
    /\ dsError = "none"
    /\ data_set = Dataset(dataset_name, 3, "diabetes-data/diabetes.csv")
    /\ diabetes_ds = data_set

(***************************************************************************)
(* Claims about the published pipeline.                                    *)
(***************************************************************************)
\* C17: the run that is fetched and displayed is a run that a POST returned
\* the identifier of, in the experiment the body of that POST named, and
\* the results.txt that is downloaded comes from a step run whose parent is
\* that fetched run.
RestRunIdentified ==
    /\ published_run # NoRun =>
          /\ <<published_run.experiment, published_run.id>> \in posts
          /\ published_run.experiment = Batch_Pipeline_via_REST
          /\ published_run \in pipelineRunsSvc
    /\ downloaded # NoDownload =>
          /\ downloaded.file = "results.txt"
          /\ downloaded.parent = downloaded.of
          /\ \E p \in posts : p[2] = downloaded.of

\* C17 witness: two runs were started over REST, the second was fetched and
\* its results downloaded while the first was still without results.
RestRunWitness ==
    /\ Cardinality(posts) = 2
    /\ run_id = 3
    /\ published_run = PipelineRunRecord(3, Batch_Pipeline_via_REST)
    /\ downloaded.of = 3
    /\ downloaded.parent = 3
    /\ restError = "none"

vars == <<sessionVars, scriptVars, jobVars, batchVars, pipeVars, sweepVars, registry,
    computeVars, regVars,
    datasetVars,
    restVars,
    notebookVars>>

notSession == <<scriptVars, jobVars, batchVars, pipeVars, sweepVars, registry,
    computeVars, regVars,
    datasetVars,
    restVars,
    notebookVars>>
notScript == <<sessionVars, jobVars, batchVars, pipeVars, sweepVars, registry,
    computeVars, regVars,
    datasetVars,
    restVars,
    notebookVars>>
notJobs == <<sessionVars, scriptVars, batchVars, pipeVars, sweepVars, registry,
    computeVars, regVars,
    datasetVars,
    restVars,
    notebookVars>>
notBatch == <<sessionVars, scriptVars, jobVars, pipeVars, sweepVars, registry,
    computeVars, regVars,
    datasetVars,
    restVars,
    notebookVars>>
notPipeline == <<sessionVars, jobVars, batchVars, sweepVars,
    computeVars, regVars,
    datasetVars,
    restVars,
    notebookVars>>
notSweep == <<sessionVars, scriptVars, jobVars, batchVars, pipeVars,
    computeVars, regVars,
    datasetVars,
    restVars,
    notebookVars>>
notRegistrations == <<sessionVars, scriptVars, jobVars, batchVars, pipeVars,
    sweepVars, computeVars,
    datasetVars,
    restVars,
    notebookVars>>
notCompute == <<sessionVars, scriptVars, jobVars, batchVars, pipeVars, sweepVars,
    registry, regVars,
    datasetVars,
    restVars,
    notebookVars>>

\* The notebook session.
Init == InitSession /\ IdleScript /\ InitJobs /\ IdleBatch /\ IdlePipeline
    /\ IdleSweep /\ IdleRegistry
    /\ IdleCompute
    /\ IdleRegistrations
    /\ IdleDatasets
    /\ IdleRest
    /\ IdleNotebooks

Next ==
    \/ WorkspaceStart /\ UNCHANGED notSession
    \/ WorkspaceLookup /\ UNCHANGED notSession
    \/ WorkspaceCreate /\ UNCHANGED notSession
    \/ WorkspaceFinally /\ UNCHANGED notSession
    \/ (\E c \in ClusterCells : ClusterStart(c)) /\ UNCHANGED notSession
    \/ ClusterLookup /\ UNCHANGED notSession
    \/ ClusterCreate /\ UNCHANGED notSession
    \/ ClusterWait /\ UNCHANGED notSession
    \/ DeleteCluster /\ UNCHANGED notSession
    \/ (\E c \in PlainCells : PlainCell(c)) /\ UNCHANGED notSession
    \/ PlainCall /\ UNCHANGED notSession

Spec == Init /\ [][Next]_vars

\* The run of one script.
InitScripts == InitScript /\ IdleSession /\ InitJobs /\ IdleBatch /\ IdlePipeline
    /\ IdleSweep /\ IdleRegistry
    /\ IdleCompute
    /\ IdleRegistrations
    /\ IdleDatasets
    /\ IdleRest
    /\ IdleNotebooks

NextScripts ==
    \/ ScriptStep /\ UNCHANGED notScript
    \/ ScriptExit /\ UNCHANGED notScript

SpecScript == InitScripts /\ [][NextScripts]_vars

\* The submissions of a session.
InitFlows == InitJobs /\ IdleSession /\ IdleScript /\ IdleBatch /\ IdlePipeline
    /\ IdleSweep /\ IdleRegistry
    /\ IdleCompute
    /\ IdleRegistrations
    /\ IdleDatasets
    /\ IdleRest
    /\ IdleNotebooks

NextFlows ==
    \/ (\E f \in FlowNames : StartFlow(f)) /\ UNCHANGED notJobs
    \/ FlowStep /\ UNCHANGED notJobs
    \/ EndFlow /\ UNCHANGED notJobs
    \/ JobProgress /\ UNCHANGED notJobs

SpecJobs == InitFlows /\ [][NextFlows]_vars

\* The batch scoring script.
InitBatchScoring == InitBatch /\ IdleSession /\ IdleScript /\ InitJobs /\ IdlePipeline
    /\ IdleSweep /\ IdleRegistry
    /\ IdleCompute
    /\ IdleRegistrations
    /\ IdleDatasets
    /\ IdleRest
    /\ IdleNotebooks

NextBatchScoring ==
    \/ BatchGlob /\ UNCHANGED notBatch
    \/ BatchLoad /\ UNCHANGED notBatch
    \/ BatchPredict /\ UNCHANGED notBatch
    \/ BatchWrite /\ UNCHANGED notBatch
    \/ BatchComplete /\ UNCHANGED notBatch
    \/ ReadResults /\ UNCHANGED notBatch

SpecBatch == InitBatchScoring /\ [][NextBatchScoring]_vars

\* The training pipeline.
InitTraining ==
    /\ InitPipeline /\ InitRegistry
    /\ IdleScript /\ IdleSession /\ InitJobs /\ IdleBatch /\ IdleSweep
    /\ IdleCompute
    /\ IdleRegistrations
    /\ IdleDatasets
    /\ IdleRest
    /\ IdleNotebooks

NextTraining ==
    \/ SubmitPipeline /\ UNCHANGED <<notPipeline, scriptVars>>
    \/ (\E s \in Steps : StartStep(s)) /\ UNCHANGED notPipeline
    \/ ScriptStep /\ UNCHANGED notScript
    \/ ScriptExit /\ UNCHANGED notScript
    \/ FinishStep /\ UNCHANGED notPipeline
    \/ FinishPipeline /\ UNCHANGED <<notPipeline, scriptVars>>

SpecPipeline == InitTraining /\ [][NextTraining]_vars

\* The Hyperdrive sweep.
InitHyperdrive ==
    /\ InitSweep /\ IdleRegistry
    /\ IdleSession /\ IdleScript /\ InitJobs /\ IdleBatch /\ IdlePipeline
    /\ IdleCompute
    /\ IdleRegistrations
    /\ IdleDatasets
    /\ IdleRest
    /\ IdleNotebooks

NextHyperdrive ==
    \/ SubmitSweep /\ UNCHANGED notSweep
    \/ (\E v \in regularization : StartChild(v)) /\ UNCHANGED notSweep
    \/ (\E v \in regularization : ChildRun(v)) /\ UNCHANGED notSweep
    \/ FinishSweep /\ UNCHANGED notSweep
    \/ GetBestRun /\ UNCHANGED notSweep
    \/ RegisterBestRun /\ UNCHANGED notSweep

SpecSweep == InitHyperdrive /\ [][NextHyperdrive]_vars

\* The cluster at work.
InitCluster ==
    /\ InitCompute /\ IdleRegistry
    /\ IdleSession /\ IdleScript /\ InitJobs /\ IdleBatch /\ IdlePipeline /\ IdleSweep
    /\ IdleRegistrations
    /\ IdleDatasets
    /\ IdleRest
    /\ IdleNotebooks

NextCluster ==
    \/ (\E j \in ComputeJobs : SubmitJob(j)) /\ UNCHANGED notCompute
    \/ (\E j \in ComputeJobs : Launch(j)) /\ UNCHANGED notCompute
    \/ (\E j \in ComputeJobs : Allocate(j)) /\ UNCHANGED notCompute
    \/ (\E j \in ComputeJobs : EndChild(j)) /\ UNCHANGED notCompute

SpecCompute == InitCluster /\ [][NextCluster]_vars

\* The registrations of the model.
InitModels ==
    /\ InitRegistry /\ InitRegistrations
    /\ IdleSession /\ IdleScript /\ InitJobs /\ IdleBatch /\ IdlePipeline /\ IdleSweep
    /\ IdleCompute
    /\ IdleDatasets
    /\ IdleRest
    /\ IdleNotebooks

NextModels ==
    \/ TrainingRun /\ UNCHANGED notRegistrations
    \/ RegisterCall /\ UNCHANGED notRegistrations

SpecModels == InitModels /\ [][NextModels]_vars

\* The dataset cells.
notDatasets == <<sessionVars, scriptVars, jobVars, batchVars, pipeVars, sweepVars,
    registry, computeVars, regVars,
    restVars,
    notebookVars>>

InitData ==
    /\ InitDatasets /\ IdleRegistry
    /\ IdleSession /\ IdleScript /\ InitJobs /\ IdleBatch /\ IdlePipeline /\ IdleSweep
    /\ IdleCompute
    /\ IdleRegistrations
    /\ IdleRest
    /\ IdleNotebooks

NextData ==
    \/ UploadFiles /\ UNCHANGED notDatasets
    \/ FromDelimitedFiles /\ UNCHANGED notDatasets
    \/ RegisterDataset /\ UNCHANGED notDatasets
    \/ GetDataset /\ UNCHANGED notDatasets

SpecData == InitData /\ [][NextData]_vars

\* The published pipeline.
notRest == <<sessionVars, scriptVars, jobVars, batchVars, pipeVars, sweepVars,
    registry, computeVars, regVars, datasetVars,
    notebookVars>>

InitPublished ==
    /\ InitRest /\ IdleRegistry
    /\ IdleSession /\ IdleScript /\ InitJobs /\ IdleBatch /\ IdlePipeline /\ IdleSweep
    /\ IdleCompute
    /\ IdleRegistrations
    /\ IdleDatasets
    /\ IdleNotebooks

NextPublished ==
    \/ Post /\ UNCHANGED notRest
    \/ FetchRun /\ UNCHANGED notRest
    \/ Download /\ UNCHANGED notRest
    \/ StartStepRun /\ UNCHANGED notRest
    \/ FinishStepRun /\ UNCHANGED notRest

SpecRest == InitPublished /\ [][NextPublished]_vars

\* The notebooks in document order.
notNotebooks == <<sessionVars, scriptVars, jobVars, batchVars, pipeVars, sweepVars,
    registry, computeVars, regVars, datasetVars, restVars>>

InitDocuments ==
    /\ InitNotebooks /\ IdleRegistry
    /\ IdleSession /\ IdleScript /\ InitJobs /\ IdleBatch /\ IdlePipeline /\ IdleSweep
    /\ IdleCompute
    /\ IdleRegistrations
    /\ IdleDatasets
    /\ IdleRest

NextDocuments ==
    \/ (\E n \in Notebooks : OpenNotebook(n)) /\ UNCHANGED notNotebooks
    \/ RunCell /\ UNCHANGED notNotebooks
    \/ CloseNotebook /\ UNCHANGED notNotebooks

SpecNotebooks == InitDocuments /\ [][NextDocuments]_vars

====
